---- MODULE Spec2Model ----
(***************************************************************************)
(* Verification model of the bokken instruction-execution core:            *)
(*   - the length-prefixed frame channel   (solana-debug-runtime/ipc_comm) *)
(*   - the account-memory blob and the CPI syscall (executor, sol_syscalls)*)
(*   - the validator's program caller      (program_caller)                *)
(*   - the instruction executor and ledger (debug_ledger)                  *)
(* Each part has its own specification (SpecChan, SpecBlob, SpecCaller,    *)
(* SpecLedger) over the variables it owns; the other variables stay at     *)
(* their initial value under that specification.                           *)
(***************************************************************************)
EXTENDS Integers, Sequences, FiniteSets, TLC

VARIABLES
    \* ---- frame channel (ipc_comm.rs), one direction of one connection
    send_queue_bytes,   \* IPCComm.send_queue_bytes: VecDeque<Vec<u8>>
    stream,             \* bytes accepted by try_write and not yet taken by try_read
    buffer,             \* IPCCommReadHandler.buffer[0..buffer_index] (the filled part)
    buffer_len,         \* IPCCommReadHandler.buffer.len()
    state,              \* IPCCommReadHandler.state
    recv_queue_bytes,   \* IPCComm.recv_queue_bytes
    reader_panicked,    \* the reader task died in the panic! of read_tick
    short_writes,       \* how often try_write took fewer bytes than offered
    short_reads,        \* how often try_read returned fewer bytes than it could
    sent,               \* history: payloads given to send_msg, in call order
    dequeued,           \* history: payloads returned by recv_msg, in call order
    ipc_should_stop,    \* IPCComm.should_stop
    writer_panicked,    \* the writer task died in the unwrap of write_tick's result
    recv_notif_unseen,  \* the watch channel recv_notif holds a version not yet seen
    io_failed,          \* history: "none" | "reader" | "writer", the task an I/O error hit
    until_recv,         \* the caller of until_recv_msg: where it is and what it got
    until_recv_calls,   \* how many times until_recv_msg was called
    \* ---- account blob of one invocation (executor.rs) and its CPI syscall
    blob_pc,            \* "input" | "built" | "edited" | "asked" | "panicked"
    in_instruction,     \* SolanaAccountsBlob::new argument: instruction
    in_metas,           \* SolanaAccountsBlob::new argument: account_metas
    in_accounts,        \* SolanaAccountsBlob::new argument: account_datas
    bytes,              \* SolanaAccountsBlob.bytes
    account_offsets,    \* SolanaAccountsBlob.account_offsets
    non_entrypointed_account_infos,
    snapshot,           \* last result of get_account_datas
    set_call,           \* last call of set_account_data: its arguments and result
    sysvar_call,        \* last call of a sysvar syscall: the sysvar and the code returned
    \* ---- the CPI syscall of the invocation that owns the blob (sol_syscalls.rs)
    contexts,           \* BokkenSyscalls.contexts: the frames [nonce, cpi_height]
    instruction_accounts, \* sol_invoke_signed argument: instruction.accounts
    instruction_program_id, \* sol_invoke_signed argument: instruction.program_id
    cpi_result,         \* the CrossProgramInvokeResult the blocked thread received
    account_infos,      \* sol_invoke_signed argument: the keys of account_infos
    signers_seeds,      \* sol_invoke_signed argument: signers_seeds
    syscall_result,     \* how the last sol_invoke_signed ended
    ipc,                \* frames the shim gave to ipc.blocking_send_msg, in order
    invoke_result_senders, \* BokkenSyscalls.invoke_result_senders: the nonces with a slot
    \* ---- instruction executor and ledger (debug_ledger.rs)
    account_files,      \* accounts/<pubkey>/<slot>: pubkey -> slot -> BokkenAccountData
    slot,               \* BokkenLedgerFile.slot
    blockhash,          \* BokkenLedgerFile.blockhash[0..8] as a u64
    blocks,             \* the entries appended by append_new_block
    transaction_index,  \* BokkenLedger.transaction_index: signature -> slot
    ledger_pc,          \* "idle" | "call_program" (awaiting it) | "returned"
    tx,                 \* the transaction being executed
    ix_index,           \* index i of the instruction call_program runs
    account_datas_loaded, \* execute_instructions: account_datas, the accounts as loaded
    account_datas_changed, \* execute_instructions: the working copy
    the_big_log,        \* execute_instructions: the_big_log
    tx_result,          \* what execute_transaction / execute_instructions returned
    calls,              \* history: instruction indexes call_program was called for
    ledger_before,      \* history: the ledger when the transaction began
    fee_payer_moved,    \* history: lamports the instructions added to the fee payer
    saved_accounts,     \* history: pubkey -> the data save_account was called with
    ix_given,           \* history: the account map each call_program was given
    ix_returned,        \* history: the account map each call_program returned
    \* ---- program caller (program_caller.rs) and the children it talks to
    should_stop,        \* ProgramCaller.should_stop
    COMM_NONCE,         \* static COMM_NONCE
    exec_logs,          \* ProgramCaller.exec_logs: nonce -> log lines
    exec_results,       \* ProgramCaller.exec_results: nonce -> ProgramCallerExecStatus
    exec_notif,         \* version of the watch channel exec_notif
    notif_seen,         \* version the receiver self.exec_notif has seen
    recieve_handle,     \* the poller task: "running" | "notify" (about to) | "finished"
    native_logs,        \* BokkenSystemProgram.logs
    to_child,           \* per child: frames sent by the validator, not yet read
    from_child,         \* per child: frames sent by the child, not yet polled
    call_stack,         \* the nested call_program activations, outermost first
    call_result,        \* what the last top-level call_program returned
    child,              \* per child: contexts, threads, invoke_result_senders, syscall_msgs
    calls_made,         \* how many top-level calls were made
    cpis_made,          \* how many times a program called sol_invoke_signed
    logs_made,          \* how many times a program called sol_log
    heights_made,       \* how many times a program called sol_get_stack_height
    stack_height_seen,  \* the last answer of sol_get_stack_height, with the
                        \* call depth of the invocation that asked
    last_return,        \* history: the last Ok value a call_program returned
    cpi_received,       \* history: nonce -> CrossProgramInvoke frames polled
    cpi_answered,       \* history: nonce -> CrossProgramInvokeResult frames sent
    cpi_emitted,        \* history: nonce -> CrossProgramInvoke frames a child sent
    executed_emitted,   \* history: nonces a child sent Executed for
    child_events,       \* history: nonce -> the Log and Executed frames children
                        \* sent under it, the panics of its entrypoint and the
                        \* CPIs issued under it
    \* ---- the listener task and the registry (program_caller.rs lines 51-64)
    listener_should_stop, \* ProgramCaller.should_stop as the listener task reads it
    connections,        \* per connection: the first frame its child sends, whether
                        \* it has arrived, the frames the validator sent on it
    accept_queue,       \* connections made and not yet accepted
    comms,              \* ProgramCaller.comms: program id -> connection
    comms_lock,         \* holder of the comms mutex: "free" | "listener"
    listener_handle,    \* the listener task: "head" | "accept" | "lock" |
                        \* "handshake" | "finished" | "failed"
    listener_stream,    \* the connection the listener task has accepted
    invokes_made,       \* how many Invoke frames call_program tried to send
    handshakes,         \* history: (connection, program id) of each registration
    invokes,            \* history: the Invoke frames sent and their connection
    \* ---- the return data of a child's syscall shim (sol_syscalls.rs)
    return_data,        \* BokkenSyscalls.return_data
    invocations_started, \* how many PushContext messages the shim's task handled
    invocation_running, \* an entrypoint runs between PushContext and PopContext
    set_here,           \* history: what the running invocation last set
    got_return_data,    \* the last answer of sol_get_return_data
    \* ---- the system program stub (native_program_stubs/system_program.rs)
    sys_pc,             \* "idle" | "input" | "done"
    sys_lamports,       \* SystemInstruction::Transfer { lamports }
    sys_metas,          \* exec argument: account_metas
    sys_accounts,       \* exec argument: account_datas as given
    sys_result,         \* what exec returned and account_datas as it left them
    \* ---- the mutexes of ProgramCaller (program_caller.rs lines 32-35)
    comms_guard,        \* holder of the comms MutexGuard: "free" | "call_program"
                        \* | "poller"
    exec_logs_guard,    \* holder of the exec_logs MutexGuard, likewise
    activations,        \* the nested call_program activations: program, position
                        \* in the code, state of the child's thread, replies sent
    poller,             \* the poller task: "head" | "recv" | "log"
    poller_todo,        \* channels the for loop of this iteration has not visited
    inbox,              \* per program: kinds of the frames its channel has queued
    stored_status,      \* exec_results for the nonce of the innermost activation
    frames_sent,        \* how many Log and CrossProgramInvoke frames were sent
    lock_calls          \* how many top-level calls were made

chanVars == <<send_queue_bytes, stream, buffer, buffer_len, state,
              recv_queue_bytes, reader_panicked, short_writes, short_reads,
              sent, dequeued, ipc_should_stop, writer_panicked, recv_notif_unseen,
              io_failed, until_recv, until_recv_calls>>

\* what the steps of the frame transport leave alone
chanFailVars == <<ipc_should_stop, writer_panicked, io_failed, until_recv,
                  until_recv_calls>>

blobVars == <<blob_pc, in_instruction, in_metas, in_accounts, bytes,
              account_offsets, non_entrypointed_account_infos, snapshot, set_call,
              sysvar_call>>

cpiVars == <<contexts, instruction_accounts, instruction_program_id, cpi_result,
             account_infos, signers_seeds,
             syscall_result, ipc, invoke_result_senders>>

storeVars == <<account_files, slot, blockhash, blocks, transaction_index>>

ledgerVars == <<storeVars, ledger_pc, tx, ix_index, account_datas_loaded,
                account_datas_changed, the_big_log, tx_result, calls,
                ledger_before, fee_payer_moved, saved_accounts, ix_given,
                ix_returned>>

validatorVars == <<should_stop, COMM_NONCE, exec_logs, exec_results, exec_notif,
                   notif_seen, recieve_handle, native_logs, call_stack, call_result>>

callerVars == <<validatorVars, to_child, from_child, child,
                calls_made, cpis_made, logs_made, heights_made, stack_height_seen,
                last_return,
                cpi_received, cpi_answered, cpi_emitted, executed_emitted,
                child_events>>

listenerVars == <<listener_should_stop, connections, accept_queue, comms, comms_lock,
                  listener_handle, listener_stream, invokes_made, handshakes, invokes>>

returnDataVars == <<return_data, invocations_started, invocation_running, set_here,
                    got_return_data>>

systemVars == <<sys_pc, sys_lamports, sys_metas, sys_accounts, sys_result>>

lockVars == <<comms_guard, exec_logs_guard, activations, poller, poller_todo,
              inbox, stored_status, frames_sent, lock_calls>>

vars == <<chanVars, blobVars, cpiVars, ledgerVars, callerVars, listenerVars, returnDataVars, systemVars,
          lockVars>>

\* what an action of one part leaves alone
notSystem == <<chanVars, blobVars, cpiVars, ledgerVars, callerVars, listenerVars, returnDataVars,
    lockVars>>

notLocks == <<chanVars, blobVars, cpiVars, ledgerVars, callerVars, listenerVars, returnDataVars, systemVars>>

notChan == <<blobVars, cpiVars, ledgerVars, callerVars, listenerVars, returnDataVars,
    systemVars,
    lockVars>>

notBlob == <<chanVars, cpiVars, ledgerVars, callerVars, listenerVars, returnDataVars,
    systemVars,
    lockVars>>

notBlobCpi == <<chanVars, ledgerVars, callerVars, listenerVars, returnDataVars,
    systemVars,
    lockVars>>

notLedger == <<chanVars, blobVars, cpiVars, callerVars, listenerVars, returnDataVars,
    systemVars,
    lockVars>>

notCaller == <<chanVars, blobVars, cpiVars, ledgerVars, listenerVars, returnDataVars,
    systemVars,
    lockVars>>

notReturnData == <<chanVars, blobVars, cpiVars, ledgerVars, callerVars, listenerVars,
    systemVars,
    lockVars>>

notListener == <<chanVars, blobVars, cpiVars, ledgerVars, callerVars, returnDataVars,
    systemVars,
    lockVars>>

(***************************************************************************)
(* Generic helpers                                                         *)
(***************************************************************************)
Min(a, b) == IF a <= b THEN a ELSE b

IsPrefix(s, t) == Len(s) <= Len(t) /\ SubSeq(t, 1, Len(s)) = s

Zeros(n) == [i \in 1..n |-> 0]

\* u64::to_le_bytes
RECURSIVE LeBytes(_, _)
LeBytes(v, w) == IF w = 0 THEN <<>> ELSE <<v % 256>> \o LeBytes(v \div 256, w - 1)

U64LeBytes(v) == LeBytes(v, 8)

\* A length of TooLong bytes or more is kept as TooLong: more bytes than a run
\* of the model ever puts on a wire, so a buffer of that length is never filled.
TooLong == 16777216

\* u64::from_le_bytes of an 8-byte slice
U64FromLeBytes(b) ==
    IF \E i \in 4..8 : b[i] # 0
    THEN TooLong
    ELSE b[1] + 256 * b[2] + 65536 * b[3]

\* all sequences over S of length lo..hi
SeqsOf(S, lo, hi) == UNION {[1..n -> S] : n \in lo..hi}

\* a map (HashMap) is a function on a finite set of keys
EmptyMap == <<>>

MapInsert(m, k, v) == [x \in DOMAIN m \cup {k} |-> IF x = k THEN v ELSE m[x]]

MapRemove(m, k) == [x \in DOMAIN m \ {k} |-> m[x]]

NoSnapshot == [taken |-> FALSE]

NoSetCall == [called |-> FALSE]

NoSysvarCall == [called |-> FALSE]

\* the blob variables while another part of the system is being checked
BlobIdle ==
    /\ blob_pc = "idle"
    /\ in_instruction = <<>>
    /\ in_metas = <<>>
    /\ in_accounts = EmptyMap
    /\ bytes = <<>>
    /\ account_offsets = EmptyMap
    /\ non_entrypointed_account_infos = EmptyMap
    /\ snapshot = NoSnapshot
    /\ set_call = NoSetCall
    /\ sysvar_call = NoSysvarCall

NoSyscall == [kind |-> "NotCalled"]

NoCpiResult == [received |-> FALSE]

\* the syscall variables while no sol_invoke_signed is being checked
CpiIdle ==
    /\ contexts = <<>>
    /\ instruction_accounts = <<>>
    /\ instruction_program_id = 0
    /\ cpi_result = NoCpiResult
    /\ account_infos = <<>>
    /\ signers_seeds = <<>>
    /\ syscall_result = NoSyscall
    /\ ipc = <<>>
    /\ invoke_result_senders = {}

NoTx == [fee_payer |-> 0, instructions |-> <<>>, signature |-> 0,
         commit_changes |-> FALSE, entry |-> "none"]

NoResult == [kind |-> "None"]

\* the ledger variables while no transaction is being checked
LedgerIdle ==
    /\ account_files = EmptyMap
    /\ slot = 0
    /\ blockhash = 0
    /\ blocks = <<>>
    /\ transaction_index = EmptyMap
    /\ ledger_pc = "idle"
    /\ tx = NoTx
    /\ ix_index = 0
    /\ account_datas_loaded = EmptyMap
    /\ account_datas_changed = EmptyMap
    /\ the_big_log = <<>>
    /\ tx_result = NoResult
    /\ calls = <<>>
    /\ ledger_before = <<>>
    /\ fee_payer_moved = 0
    /\ saved_accounts = EmptyMap
    /\ ix_given = <<>>
    /\ ix_returned = <<>>

NoCall == [kind |-> "None"]

\* the caller variables while no call_program is being checked
NoHeight == [asked |-> FALSE]

CallerIdle ==
    /\ should_stop = FALSE
    /\ COMM_NONCE = 0
    /\ exec_logs = EmptyMap
    /\ exec_results = EmptyMap
    /\ exec_notif = 0
    /\ notif_seen = 0
    /\ recieve_handle = "idle"
    /\ native_logs = <<>>
    /\ to_child = EmptyMap
    /\ from_child = EmptyMap
    /\ call_stack = <<>>
    /\ call_result = NoCall
    /\ child = EmptyMap
    /\ calls_made = 0
    /\ cpis_made = 0
    /\ logs_made = 0
    /\ heights_made = 0
    /\ stack_height_seen = NoHeight
    /\ last_return = NoCall
    /\ cpi_received = EmptyMap
    /\ cpi_answered = EmptyMap
    /\ cpi_emitted = EmptyMap
    /\ executed_emitted = {}
    /\ child_events = EmptyMap

NoReturnData == [kind |-> "None"]

\* the return data variables while another part of the system is being checked
ReturnDataIdle ==
    /\ return_data = NoReturnData
    /\ invocations_started = 0
    /\ invocation_running = FALSE
    /\ set_here = NoReturnData
    /\ got_return_data = [asked |-> FALSE]

\* the system program variables while another part of the system is being checked
SystemIdle ==
    /\ sys_pc = "idle"
    /\ sys_lamports = 0
    /\ sys_metas = <<>>
    /\ sys_accounts = EmptyMap
    /\ sys_result = [kind |-> "None"]

\* the mutex variables while another part of the system is being checked
LocksIdle ==
    /\ comms_guard = "free"
    /\ exec_logs_guard = "free"
    /\ activations = <<>>
    /\ poller = "head"
    /\ poller_todo = {}
    /\ inbox = <<>>
    /\ stored_status = "none"
    /\ frames_sent = 0
    /\ lock_calls = 0

\* the listener variables while another part of the system is being checked
ListenerIdle ==
    /\ listener_should_stop = FALSE
    /\ connections = EmptyMap
    /\ accept_queue = <<>>
    /\ comms = EmptyMap
    /\ comms_lock = "free"
    /\ listener_handle = "idle"
    /\ listener_stream = 0
    /\ invokes_made = 0
    /\ handshakes = <<>>
    /\ invokes = <<>>

(***************************************************************************)
(* Frame channel                                                           *)
(***************************************************************************)
MaxSends == 2          \* payloads handed to send_msg in one run
MaxShortWrites == 1    \* short writes of try_write in one run
MaxShortReads == 1     \* short reads of try_read in one run

\* Payloads are borsh encodings of a pubkey or of a message enum: never empty.
Payloads == {<<1>>, <<2, 1>>, <<1, 2, 2>>}

ChanInit ==
    /\ send_queue_bytes = <<>>
    /\ stream = <<>>
    /\ buffer = <<>>
    /\ buffer_len = 8
    /\ state = "MsgLength"
    /\ recv_queue_bytes = <<>>
    /\ reader_panicked = FALSE
    /\ short_writes = 0
    /\ short_reads = 0
    /\ sent = <<>>
    /\ dequeued = <<>>
    /\ ipc_should_stop = FALSE
    /\ writer_panicked = FALSE
    /\ recv_notif_unseen = FALSE
    /\ io_failed = "none"
    /\ until_recv = [pc |-> "idle", result |-> "None"]
    /\ until_recv_calls = 0

\* send_msg / blocking_send_msg: the length prefix and the payload are two queue entries
send_msg(msg_bytes) ==
    /\ Len(sent) < MaxSends
    /\ send_queue_bytes' = send_queue_bytes \o <<U64LeBytes(Len(msg_bytes)), msg_bytes>>
    /\ sent' = Append(sent, msg_bytes)
    /\ UNCHANGED <<stream, buffer, buffer_len, state, recv_queue_bytes,
                   reader_panicked, short_writes, short_reads, dequeued>>
    /\ UNCHANGED <<chanFailVars, recv_notif_unseen>>
    /\ UNCHANGED notChan

\* write_tick line 109: what is pushed back to the front after try_write took n bytes
RequeuedAfterPartialWrite(send_data, n) ==
    SubSeq(send_data, Len(send_data) - n + 1, Len(send_data))

\* write_tick: pop the front entry, try_write it, push back what the code keeps
write_tick ==
    /\ ~writer_panicked
    /\ ~ipc_should_stop
    /\ send_queue_bytes # <<>>
    /\ LET send_data == Head(send_queue_bytes)
           rest == Tail(send_queue_bytes)
       IN \/ \* Ok(n): the socket took n bytes (all of them, or fewer)
             \E n \in (IF send_data = <<>> THEN {0} ELSE 1..Len(send_data)) :
                /\ n < Len(send_data) => short_writes < MaxShortWrites
                /\ short_writes' = IF n < Len(send_data) THEN short_writes + 1
                                                         ELSE short_writes
                /\ stream' = stream \o SubSeq(send_data, 1, n)
                /\ send_queue_bytes' =
                      IF n < Len(send_data)
                      THEN <<RequeuedAfterPartialWrite(send_data, n)>> \o rest
                      ELSE rest
          \/ \* Err(WouldBlock): the entry goes back whole
             /\ stream' = stream
             /\ send_queue_bytes' = <<send_data>> \o rest
             /\ UNCHANGED short_writes
    /\ UNCHANGED <<buffer, buffer_len, state, recv_queue_bytes,
                   reader_panicked, short_reads, sent, dequeued>>
    /\ UNCHANGED <<chanFailVars, recv_notif_unseen>>
    /\ UNCHANGED notChan

\* one iteration of the reader task: read_tick and the match on its result
read_tick ==
    /\ ~reader_panicked
    /\ ~ipc_should_stop
    /\ stream # <<>>
    /\ IF buffer_len - Len(buffer) = 0
       THEN \* panic!("Zero-length message, this shouldn't happen")
            /\ reader_panicked' = TRUE
            /\ UNCHANGED <<stream, buffer, buffer_len, state, recv_queue_bytes,
                           short_reads, recv_notif_unseen>>
       ELSE \E n \in 1..Min(buffer_len - Len(buffer), Len(stream)) :
            LET filled == buffer \o SubSeq(stream, 1, n)
                short == n < Min(buffer_len - Len(buffer), Len(stream))
            IN /\ short => short_reads < MaxShortReads
               /\ short_reads' = IF short THEN short_reads + 1 ELSE short_reads
               /\ stream' = SubSeq(stream, n + 1, Len(stream))
               /\ reader_panicked' = FALSE
               /\ IF Len(filled) = buffer_len
                  THEN IF state = "MsgLength"
                       THEN /\ buffer_len' = U64FromLeBytes(filled)
                            /\ buffer' = <<>>
                            /\ state' = "MsgBody"
                            /\ UNCHANGED <<recv_queue_bytes, recv_notif_unseen>>
                       ELSE /\ buffer_len' = 8
                            /\ buffer' = <<>>
                            /\ state' = "MsgLength"
                            /\ recv_queue_bytes' = Append(recv_queue_bytes, filled)
                            /\ recv_notif_unseen' = TRUE
                  ELSE /\ buffer' = filled
                       /\ UNCHANGED <<buffer_len, state, recv_queue_bytes,
                                      recv_notif_unseen>>
    /\ UNCHANGED <<send_queue_bytes, short_writes, sent, dequeued>>
    /\ UNCHANGED chanFailVars
    /\ UNCHANGED notChan

\* recv_msg: pop the front of the receive queue (None when it is empty)
recv_msg ==
    /\ recv_queue_bytes # <<>>
    /\ dequeued' = Append(dequeued, Head(recv_queue_bytes))
    /\ recv_queue_bytes' = Tail(recv_queue_bytes)
    /\ UNCHANGED <<send_queue_bytes, stream, buffer, buffer_len, state,
                   reader_panicked, short_writes, short_reads, sent>>
    /\ UNCHANGED <<chanFailVars, recv_notif_unseen>>
    /\ UNCHANGED notChan

ChanNext ==
    \/ \E p \in Payloads : send_msg(p)
    \/ write_tick
    \/ read_tick
    \/ recv_msg

InitChan == ChanInit /\ BlobIdle /\ CpiIdle /\ LedgerIdle /\ CallerIdle /\ ListenerIdle
    /\ ReturnDataIdle
    /\ SystemIdle
    /\ LocksIdle

SpecChan == InitChan /\ [][ChanNext]_vars

MaxUntilRecv == 2      \* calls of until_recv_msg in one run

\* what the steps below leave alone of the frame transport
transportVars == <<send_queue_bytes, stream, buffer, buffer_len, state,
                   short_writes, short_reads, sent>>

\* the reader task's closure has ended, which drops recv_notif_sender: its loop
\* saw should_stop (lines 153-154), or it died in a panic
RecvNotifSenderDropped == reader_panicked \/ ipc_should_stop

\* read_tick returns Err(e): stream.readable().await? or the Err(e) arm of
\* try_read (lines 38, 78-80); the task dies in the unwrap of line 154
read_io_error ==
    /\ ~reader_panicked
    /\ ~ipc_should_stop
    /\ io_failed = "none"
    /\ reader_panicked' = TRUE
    /\ io_failed' = "reader"
    /\ UNCHANGED <<transportVars, recv_queue_bytes, dequeued, ipc_should_stop,
                   writer_panicked, recv_notif_unseen, until_recv, until_recv_calls>>
    /\ UNCHANGED notChan

\* write_tick returns Err(e): stream.writable().await? or the Err(e) arm of
\* try_write (lines 102, 115-117); the task dies in the unwrap of line 177
write_io_error ==
    /\ ~writer_panicked
    /\ ~ipc_should_stop
    /\ io_failed = "none"
    /\ writer_panicked' = TRUE
    /\ io_failed' = "writer"
    /\ UNCHANGED <<transportVars, recv_queue_bytes, dequeued, reader_panicked,
                   ipc_should_stop, recv_notif_unseen, until_recv, until_recv_calls>>
    /\ UNCHANGED notChan

\* try_read returns Ok(0), the peer has closed: the Shutdown arm (lines 155-160)
read_shutdown ==
    /\ ~reader_panicked
    /\ ~ipc_should_stop
    /\ stream = <<>>
    /\ ipc_should_stop' = TRUE
    /\ recv_notif_unseen' = TRUE
    /\ UNCHANGED <<transportVars, recv_queue_bytes, dequeued, reader_panicked,
                   writer_panicked, io_failed, until_recv, until_recv_calls>>
    /\ UNCHANGED notChan

\* until_recv_msg is called (line 224)
until_recv_msg ==
    /\ until_recv.pc = "idle"
    /\ until_recv_calls < MaxUntilRecv
    /\ until_recv_calls' = until_recv_calls + 1
    /\ until_recv' = [pc |-> "loop", result |-> "None"]
    /\ UNCHANGED <<transportVars, recv_queue_bytes, dequeued, reader_panicked,
                   ipc_should_stop, writer_panicked, recv_notif_unseen, io_failed>>
    /\ UNCHANGED notChan

\* the head of its loop (lines 226-231): Ok(None) under should_stop, Ok(Some)
\* with the front of the receive queue, else on to recv_notif.changed()
until_recv_loop ==
    /\ until_recv.pc = "loop"
    /\ IF ipc_should_stop
       THEN /\ until_recv' = [pc |-> "idle", result |-> "OkNone"]
            /\ UNCHANGED <<recv_queue_bytes, dequeued>>
       ELSE IF recv_queue_bytes # <<>>
       THEN /\ until_recv' = [pc |-> "idle", result |-> "OkSome"]
            /\ dequeued' = Append(dequeued, Head(recv_queue_bytes))
            /\ recv_queue_bytes' = Tail(recv_queue_bytes)
       ELSE /\ until_recv' = [pc |-> "changed", result |-> "None"]
            /\ UNCHANGED <<recv_queue_bytes, dequeued>>
    /\ UNCHANGED <<transportVars, reader_panicked, ipc_should_stop, writer_panicked,
                   recv_notif_unseen, io_failed, until_recv_calls>>
    /\ UNCHANGED notChan

\* recv_notif.changed().await.expect(..) (line 232): Ok(()) on a version not yet
\* seen, Err when the sender is gone, which the expect turns into a panic;
\* pending otherwise
until_recv_changed ==
    /\ until_recv.pc = "changed"
    /\ IF recv_notif_unseen
       THEN /\ recv_notif_unseen' = FALSE
            /\ until_recv' = [pc |-> "loop", result |-> "None"]
       ELSE /\ RecvNotifSenderDropped
            /\ until_recv' = [pc |-> "panicked", result |-> "Panic"]
            /\ UNCHANGED recv_notif_unseen
    /\ UNCHANGED <<transportVars, recv_queue_bytes, dequeued, reader_panicked,
                   ipc_should_stop, writer_panicked, io_failed, until_recv_calls>>
    /\ UNCHANGED notChan

ChanFailureNext ==
    \/ ChanNext
    \/ read_io_error
    \/ write_io_error
    \/ read_shutdown
    \/ until_recv_msg
    \/ until_recv_loop
    \/ until_recv_changed

SpecChanFailure == InitChan /\ [][ChanFailureNext]_vars

\* nothing is queued, in flight or waiting to be dequeued
ChanQuiescent ==
    /\ send_queue_bytes = <<>>
    /\ stream = <<>>
    /\ recv_queue_bytes = <<>>

\* C1: the payloads dequeued by recv_msg are, in order and byte for byte, the
\* payloads given to send_msg: always a prefix of them, and all of them once
\* every queued byte has been written, read and dequeued.
C1_FrameFifo ==
    /\ IsPrefix(dequeued, sent)
    /\ ChanQuiescent => dequeued = sent

(***************************************************************************)
(* Account blob (executor.rs)                                              *)
(***************************************************************************)
MAX_PERMITTED_DATA_INCREASE == 10240   \* solana_program::entrypoint, 1024 * 10
AccountInfoHeaderSize == 88            \* size_of::<AccountInfoHeader>()
PubkeySize == 32                       \* size_of::<Pubkey>()

MaxMetas == 3                          \* metas of one instruction

\* Pubkeys are small numbers; on the wire a pubkey is 32 bytes.
Pubkeys == {1, 2}

PubkeyBytes(p) == <<p>> \o Zeros(PubkeySize - 1)

\* bytes that are no key of the model decode to the key 0
PubkeyFromBytes(b) == IF \A i \in 2..PubkeySize : b[i] = 0 THEN b[1] ELSE 0

BoolByte(b) == IF b THEN 1 ELSE 0

\* BokkenAccountData values the inputs are drawn from: data of 0, 1 and 4 bytes
AccountValues == {
    [lamports |-> 1,   data |-> <<>>,           owner |-> 1, executable |-> FALSE, rent_epoch |-> 0],
    [lamports |-> 300, data |-> <<7>>,          owner |-> 2, executable |-> FALSE, rent_epoch |-> 2],
    [lamports |-> 5,   data |-> <<1, 2, 3, 4>>, owner |-> 1, executable |-> TRUE,  rent_epoch |-> 513] }

\* the four (is_signer, is_writable) combinations
FlagCombos == <<[is_signer |-> FALSE, is_writable |-> FALSE],
                [is_signer |-> TRUE,  is_writable |-> TRUE],
                [is_signer |-> FALSE, is_writable |-> TRUE],
                [is_signer |-> TRUE,  is_writable |-> FALSE]>>

\* the metas naming keys[1], keys[2], ..., the flags of meta i being combination
\* number (i + k) mod 4: over k every meta position takes every combination, and a
\* pubkey named twice has different flags at its two places
MetasOf(keys, k) ==
    [i \in 1..Len(keys) |->
        [pubkey      |-> keys[i],
         is_signer   |-> FlagCombos[((i + k) % 4) + 1].is_signer,
         is_writable |-> FlagCombos[((i + k) % 4) + 1].is_writable]]

MetaSeqs(keyset, maxlen) ==
    {MetasOf(keys, k) : keys \in SeqsOf(keyset, 0, maxlen), k \in 0..3}

\* HashMap<Pubkey, BokkenAccountData> over any subset of the pubkeys
AccountMaps == UNION {[K -> AccountValues] : K \in SUBSET Pubkeys}

Instructions == {<<>>, <<42>>}

ProgramId == 1

\* bytes[from .. from+len) of a 0-based slice; Rust panics when it is out of range
InRange(b, from, len) == from + len <= Len(b)

Slice(b, from, len) == SubSeq(b, from + 1, from + len)

\* executor.rs line 87: the padding pushed after the growth room
RecordPadding(blob_len) == Zeros(blob_len % 8)

\* executor.rs lines 76-88: the full record of a first occurrence, appended to blob
FullRecord(blob, account_meta, account_data) ==
    LET upto_growth ==
            blob
            \o <<255, BoolByte(account_meta.is_signer), BoolByte(account_meta.is_writable),
                 BoolByte(account_data.executable)>>
            \o LeBytes(Len(account_data.data), 4)
            \o PubkeyBytes(account_meta.pubkey)
            \o PubkeyBytes(account_data.owner)
            \o U64LeBytes(account_data.lamports)
            \o U64LeBytes(Len(account_data.data))
            \o account_data.data
            \o Zeros(MAX_PERMITTED_DATA_INCREASE)
    IN upto_growth \o RecordPadding(Len(upto_growth)) \o U64LeBytes(account_data.rent_epoch)

\* mutant of BackReference: the index of the first meta, whatever the pubkey
BackReference_AlwaysZero(entry_index) == U64LeBytes(0)

\* executor.rs line 69: a later occurrence is the index of the first one
BackReference(entry_index) == U64LeBytes(entry_index)

\* executor.rs lines 67-90: the loop over the metas, from meta number index (0-based)
\* st = [blob, account_indices, account_offsets, account_datas, panicked]
RECURSIVE NewLoop(_, _, _)
NewLoop(account_metas, index, st) ==
    IF index = Len(account_metas) \/ st.panicked
    THEN st
    ELSE LET account_meta == account_metas[index + 1]
             pk == account_meta.pubkey
         IN IF pk \in DOMAIN st.account_indices
            THEN NewLoop(account_metas, index + 1,
                     [st EXCEPT !.blob = @ \o BackReference(st.account_indices[pk])])
            ELSE IF pk \notin DOMAIN st.account_datas
            THEN \* .expect("The account metas should reference accounts in the account datas")
                 [st EXCEPT !.panicked = TRUE]
            ELSE NewLoop(account_metas, index + 1,
                     [blob |-> FullRecord(st.blob, account_meta, st.account_datas[pk]),
                      account_indices |-> MapInsert(st.account_indices, pk, index),
                      account_offsets |-> MapInsert(st.account_offsets, pk, Len(st.blob)),
                      account_datas |-> MapRemove(st.account_datas, pk),
                      panicked |-> FALSE])

\* SolanaAccountsBlob::new
SolanaAccountsBlobNew(program_id, instruction, account_metas, account_datas) ==
    LET st == NewLoop(account_metas, 0,
                  [blob |-> U64LeBytes(Len(account_metas)),
                   account_indices |-> EmptyMap,
                   account_offsets |-> EmptyMap,
                   account_datas |-> account_datas,
                   panicked |-> FALSE])
    IN [bytes |-> st.blob \o U64LeBytes(Len(instruction)) \o instruction
                       \o PubkeyBytes(program_id),
        account_offsets |-> st.account_offsets,
        non_entrypointed_account_infos |-> st.account_datas,
        panicked |-> st.panicked]

\* bytemuck::from_bytes::<AccountInfoHeader> of the 88 bytes at account_offset
AccountInfoHeader(b, account_offset) ==
    [is_signer         |-> b[account_offset + 2],
     is_writable       |-> b[account_offset + 3],
     executable        |-> b[account_offset + 4],
     original_data_len |-> U64FromLeBytes(SubSeq(b, account_offset + 5, account_offset + 8)
                                          \o Zeros(4)),
     pubkey            |-> PubkeyFromBytes(SubSeq(b, account_offset + 9, account_offset + 40)),
     owner             |-> PubkeyFromBytes(SubSeq(b, account_offset + 41, account_offset + 72)),
     lamports          |-> U64FromLeBytes(SubSeq(b, account_offset + 73, account_offset + 80)),
     data_len          |-> U64FromLeBytes(SubSeq(b, account_offset + 81, account_offset + 88))]

\* executor.rs lines 110-114
RentEpochOffset(account_data_offset, original_data_len) ==
    account_data_offset + original_data_len + MAX_PERMITTED_DATA_INCREASE
        + (original_data_len % 8)

\* SolanaAccountsBlob::get_account_data: [kind |-> "None"], [kind |-> "Panic"] (a
\* slice out of range) or [kind |-> "Some", account |-> the account read]
get_account_data(b, offsets, pubkey) ==
    IF pubkey \notin DOMAIN offsets
    THEN [kind |-> "None"]
    ELSE LET account_offset == offsets[pubkey]
             account_data_offset == account_offset + AccountInfoHeaderSize
             account_header == AccountInfoHeader(b, account_offset)
             rent_epoch_offset ==
                 RentEpochOffset(account_data_offset, account_header.original_data_len)
         IN IF \/ ~InRange(b, account_data_offset, account_header.data_len)
               \/ ~InRange(b, rent_epoch_offset, 8)
            THEN [kind |-> "Panic"]
            ELSE [kind |-> "Some",
                  account |->
                     [lamports   |-> account_header.lamports,
                      data       |-> Slice(b, account_data_offset, account_header.data_len),
                      owner      |-> account_header.owner,
                      executable |-> account_header.executable > 0,
                      rent_epoch |-> U64FromLeBytes(Slice(b, rent_epoch_offset, 8))]]

\* SolanaAccountsBlob::get_account_datas; panicked when one of the reads panics
get_account_datas(b, offsets) ==
    IF \E pk \in DOMAIN offsets : get_account_data(b, offsets, pk).kind = "Panic"
    THEN [taken |-> TRUE, panicked |-> TRUE, accounts |-> EmptyMap]
    ELSE [taken |-> TRUE, panicked |-> FALSE,
          accounts |-> [pk \in DOMAIN offsets |-> get_account_data(b, offsets, pk).account]]

BlobInit ==
    /\ blob_pc = "input"
    /\ in_instruction \in Instructions
    /\ in_metas \in MetaSeqs(Pubkeys, MaxMetas)
    /\ in_accounts \in AccountMaps
    /\ bytes = <<>>
    /\ account_offsets = EmptyMap
    /\ non_entrypointed_account_infos = EmptyMap
    /\ snapshot = NoSnapshot
    /\ set_call = NoSetCall
    /\ sysvar_call = NoSysvarCall

\* BokkenSolanaContext::new: build the blob of the invocation
BlobNew ==
    /\ blob_pc = "input"
    /\ LET r == SolanaAccountsBlobNew(ProgramId, in_instruction, in_metas, in_accounts)
       IN IF r.panicked
          THEN /\ blob_pc' = "panicked"
               /\ UNCHANGED <<bytes, account_offsets, non_entrypointed_account_infos>>
          ELSE /\ blob_pc' = "built"
               /\ bytes' = r.bytes
               /\ account_offsets' = r.account_offsets
               /\ non_entrypointed_account_infos' = r.non_entrypointed_account_infos
    /\ UNCHANGED <<in_instruction, in_metas, in_accounts, snapshot, set_call,
                   sysvar_call>>
    /\ UNCHANGED notBlob

\* BokkenSolanaContext::get_account_datas: snapshot of the accounts in the blob
BlobGetAccountDatas ==
    /\ blob_pc = "built"
    /\ snapshot' = get_account_datas(bytes, account_offsets)
    /\ UNCHANGED <<blob_pc, in_instruction, in_metas, in_accounts, bytes,
                   account_offsets, non_entrypointed_account_infos, set_call,
                   sysvar_call>>
    /\ UNCHANGED notBlob

\* b with the bytes from offset `from` on replaced by new
Overwrite(b, from, new) ==
    SubSeq(b, 1, from) \o new \o SubSeq(b, from + Len(new) + 1, Len(b))

\* mutant of ReallocCap: no growth room
ReallocCap_NoGrowth(original_data_len) == original_data_len

\* executor.rs line 140: the longest data set_account_data accepts
ReallocCap(original_data_len) == original_data_len + MAX_PERMITTED_DATA_INCREASE

\* mutant of set_account_data: the header is written before the length is tested
set_account_data_WriteFirst(b, offsets, pubkey, account_data) ==
    IF pubkey \notin DOMAIN offsets
    THEN [kind |-> "Err", err |-> "UninitializedAccount", bytes |-> b]
    ELSE LET account_offset == offsets[pubkey]
             account_data_offset == account_offset + AccountInfoHeaderSize
             account_header == AccountInfoHeader(b, account_offset)
             b1 == Overwrite(b, account_offset + 80, U64LeBytes(Len(account_data.data)))
             b2 == Overwrite(b1, account_offset + 72, U64LeBytes(account_data.lamports))
             b3 == Overwrite(b2, account_offset + 40, PubkeyBytes(account_data.owner))
         IN IF Len(account_data.data) > ReallocCap(account_header.original_data_len)
            THEN [kind |-> "Err", err |-> "InvalidRealloc", bytes |-> b3]
            ELSE IF ~InRange(b3, account_data_offset, Len(account_data.data))
            THEN [kind |-> "Panic", err |-> "slice out of range", bytes |-> b3]
            ELSE [kind |-> "Ok", err |-> "",
                  bytes |-> Overwrite(b3, account_data_offset, account_data.data)]

\* SolanaAccountsBlob::set_account_data (lines 134-156): the result and the bytes
\* of the blob after the call; copy_from_slice panics on a slice out of range
set_account_data(b, offsets, pubkey, account_data) ==
    IF pubkey \notin DOMAIN offsets
    THEN [kind |-> "Err", err |-> "UninitializedAccount", bytes |-> b]
    ELSE LET account_offset == offsets[pubkey]
             account_data_offset == account_offset + AccountInfoHeaderSize
             account_header == AccountInfoHeader(b, account_offset)
             b1 == Overwrite(b, account_offset + 80, U64LeBytes(Len(account_data.data)))
             b2 == Overwrite(b1, account_offset + 72, U64LeBytes(account_data.lamports))
             b3 == Overwrite(b2, account_offset + 40, PubkeyBytes(account_data.owner))
         IN IF Len(account_data.data) > ReallocCap(account_header.original_data_len)
            THEN [kind |-> "Err", err |-> "InvalidRealloc", bytes |-> b]
            ELSE IF ~InRange(b3, account_data_offset, Len(account_data.data))
            THEN [kind |-> "Panic", err |-> "slice out of range", bytes |-> b3]
            ELSE [kind |-> "Ok", err |-> "",
                  bytes |-> Overwrite(b3, account_data_offset, account_data.data)]

\* data lengths given to set_account_data for an account whose data was
\* original_data_len bytes long: a short one, the longest accepted, one more
SetDataLens(original_data_len) ==
    {2, original_data_len + MAX_PERMITTED_DATA_INCREASE,
     original_data_len + MAX_PERMITTED_DATA_INCREASE + 1}

\* the accounts given to set_account_data, for the original lengths 0, 1 and 4
\* of AccountValues
SetAccountValues ==
    {[lamports |-> 77, data |-> [i \in 1..n |-> 9], owner |-> 2,
      executable |-> FALSE, rent_epoch |-> 0] :
        n \in SetDataLens(0) \cup SetDataLens(1) \cup SetDataLens(4)}

\* SolanaAccountsBlob::set_account_data called on the built blob
BlobSetAccountData ==
    /\ blob_pc = "built"
    /\ \E pubkey \in Pubkeys :
       \E account_data \in SetAccountValues :
         /\ Len(account_data.data) \in
                SetDataLens(IF pubkey \in DOMAIN in_accounts
                            THEN Len(in_accounts[pubkey].data) ELSE 0)
         /\ LET r == set_account_data(bytes, account_offsets, pubkey, account_data)
            IN /\ set_call' = [called |-> TRUE, pubkey |-> pubkey,
                               account_data |-> account_data,
                               kind |-> r.kind, err |-> r.err]
               /\ bytes' = r.bytes
               /\ blob_pc' = IF r.kind = "Panic" THEN "panicked" ELSE "edited"
    /\ UNCHANGED <<in_instruction, in_metas, in_accounts, account_offsets,
                   non_entrypointed_account_infos, snapshot, sysvar_call>>
    /\ UNCHANGED notBlob

\* solana_program::program_error::UNSUPPORTED_SYSVAR, 17 << 32
UNSUPPORTED_SYSVAR == [hi |-> 17, lo |-> 0]

\* the pubkeys of the blob model that stand for sysvar::clock::id() and
\* sysvar::rent::id()
SysvarPubkey == [clock |-> 1, rent |-> 2]

\* SolanaAccountsBlob::get_sysvar_data (executor.rs lines 127-131): the account
\* the Invoke carried beside the metas, else the one in the blob; the argument
\* of `or` is evaluated in either case
get_sysvar_data(b, offsets, non_entrypointed, pubkey) ==
    LET in_blob == get_account_data(b, offsets, pubkey)
    IN IF in_blob.kind = "Panic" THEN in_blob
       ELSE IF pubkey \in DOMAIN non_entrypointed
       THEN [kind |-> "Some", account |-> non_entrypointed[pubkey]]
       ELSE in_blob

\* sol_get_clock_sysvar and sol_get_rent_sysvar (sol_syscalls.rs lines 195-206):
\* the code returned for the sysvar, whatever the invocation was given
sol_get_sysvar(b, offsets, non_entrypointed, sysvar) == UNSUPPORTED_SYSVAR

\* the program calls sol_get_clock_sysvar or sol_get_rent_sysvar; the model
\* follows a blob up to the first syscall made on it
BlobGetSysvar ==
    /\ blob_pc = "built"
    /\ blob_pc' = "asked"
    /\ \E sysvar \in DOMAIN SysvarPubkey :
         sysvar_call' = [called |-> TRUE, sysvar |-> sysvar,
                         code |-> sol_get_sysvar(bytes, account_offsets,
                                                 non_entrypointed_account_infos, sysvar)]
    /\ UNCHANGED <<in_instruction, in_metas, in_accounts, bytes,
                   account_offsets, non_entrypointed_account_infos, snapshot, set_call>>
    /\ UNCHANGED notBlob

BlobNext ==
    \/ BlobNew
    \/ BlobGetAccountDatas
    \/ BlobSetAccountData
    \/ BlobGetSysvar

InitBlob == BlobInit /\ CpiIdle /\ ChanInit /\ LedgerIdle /\ CallerIdle /\ ListenerIdle
    /\ ReturnDataIdle
    /\ SystemIdle
    /\ LocksIdle

SpecBlob == InitBlob /\ [][BlobNext]_vars

MetaPubkeys(account_metas) == {account_metas[i].pubkey : i \in 1..Len(account_metas)}

\* C9: blob round trip. When every meta pubkey has an account in the input map,
\* the snapshot taken from the freshly built blob holds, for each distinct meta
\* pubkey, an account equal to the input account on all five fields.
C9_BlobRoundTrip ==
    (snapshot.taken /\ MetaPubkeys(in_metas) \subseteq DOMAIN in_accounts) =>
        /\ ~snapshot.panicked
        /\ DOMAIN snapshot.accounts = MetaPubkeys(in_metas)
        /\ \A pk \in MetaPubkeys(in_metas) : snapshot.accounts[pk] = in_accounts[pk]

\* Reading the entries of a built blob back, as the entrypoint's parser walks them:
\* an entry that starts with 0xFF is a full record, any other an 8-byte back-reference.
IsFullRecord(b, pos) == b[pos + 1] = 255

EntrySize(b, pos) ==
    IF IsFullRecord(b, pos)
    THEN LET original_data_len == AccountInfoHeader(b, pos).original_data_len
             upto_growth == pos + AccountInfoHeaderSize + original_data_len
                                + MAX_PERMITTED_DATA_INCREASE
         IN (upto_growth - pos) + Len(RecordPadding(upto_growth)) + 8
    ELSE 8

\* byte offset of entry number i (0-based) of the blob
RECURSIVE EntryPos(_, _)
EntryPos(b, i) ==
    IF i = 0 THEN 8 ELSE EntryPos(b, i - 1) + EntrySize(b, EntryPos(b, i - 1))

\* 0-based index of the first meta that names the pubkey of meta i (0-based)
FirstIndex(account_metas, i) ==
    CHOOSE j \in 0..i :
        /\ account_metas[j + 1].pubkey = account_metas[i + 1].pubkey
        /\ \A h \in 0..(j - 1) : account_metas[h + 1].pubkey # account_metas[i + 1].pubkey

\* C10: blob duplicate encoding. In a built blob, meta i whose pubkey first appeared
\* at meta j < i is the 8 bytes of j (little-endian u64); a meta that is the first
\* to name its pubkey is a full record starting with 0xFF, carrying that pubkey, at
\* the offset account_offsets gives for it; there are no other entries (the
\* instruction length follows the last one), so each pubkey has exactly one record.
C10_DuplicateEncoding ==
    blob_pc = "built" =>
        /\ DOMAIN account_offsets = MetaPubkeys(in_metas)
        /\ \A i \in 0..(Len(in_metas) - 1) :
              LET pos == EntryPos(bytes, i)
                  j == FirstIndex(in_metas, i)
              IN IF j < i
                 THEN Slice(bytes, pos, 8) = U64LeBytes(j)
                 ELSE /\ IsFullRecord(bytes, pos)
                      /\ AccountInfoHeader(bytes, pos).pubkey = in_metas[i + 1].pubkey
                      /\ account_offsets[in_metas[i + 1].pubkey] = pos
        /\ Cardinality({i \in 0..(Len(in_metas) - 1) : IsFullRecord(bytes, EntryPos(bytes, i))})
              = Cardinality(MetaPubkeys(in_metas))
        /\ Len(bytes) = EntryPos(bytes, Len(in_metas)) + 8 + Len(in_instruction) + PubkeySize

\* C10 witness: a built blob whose third meta repeats the pubkey of the second
C10_Witness ==
    /\ blob_pc = "built"
    /\ Len(in_metas) = 3
    /\ in_metas[3].pubkey = in_metas[2].pubkey
    /\ in_metas[1].pubkey # in_metas[2].pubkey

MaxCpiMetas == 2                       \* metas of one CPI instruction

\* SolanaAccountsBlob::is_writable (executor.rs 172-178)
is_writable(b, offsets, pubkey) ==
    IF pubkey \in DOMAIN offsets
    THEN LET account_header == AccountInfoHeader(b, offsets[pubkey])
         IN account_header.is_writable > 0 /\ ~(account_header.executable > 0)
    ELSE FALSE

\* SolanaAccountsBlob::is_signer (executor.rs 181-187)
is_signer(b, offsets, pubkey) ==
    IF pubkey \in DOMAIN offsets
    THEN AccountInfoHeader(b, offsets[pubkey]).is_signer > 0
    ELSE FALSE

\* Pubkey::create_program_address(signing_seed, program_id). A signing seed is
\* named by the address it derives for the program; 0 names a seed list the
\* derivation rejects.
create_program_address(signing_seed, program_id) ==
    IF signing_seed = 0
    THEN [ok |-> FALSE, pubkey |-> 0]
    ELSE [ok |-> TRUE, pubkey |-> signing_seed]

\* the lists of signing seeds a program passes
SignersSeeds == {<<>>, <<2>>, <<0>>}

\* the keys of the account_infos a program passes along with the metas: the
\* metas' own keys, one info too few, or a last info of another account
AccountInfosFor(metas) ==
    LET keys == [i \in 1..Len(metas) |-> metas[i].pubkey]
    IN {keys}
       \cup (IF metas = <<>> THEN {}
             ELSE {SubSeq(keys, 1, Len(keys) - 1),
                   [keys EXCEPT ![Len(keys)] = 3 - keys[Len(keys)]]})

\* lines 126-131: the addresses signed for by the seeds, or the error of `?`
JustSigned(seeds, program_id) ==
    IF \E i \in 1..Len(seeds) : ~create_program_address(seeds[i], program_id).ok
    THEN [ok |-> FALSE, set |-> {}]
    ELSE [ok |-> TRUE,
          set |-> {create_program_address(seeds[i], program_id).pubkey : i \in 1..Len(seeds)}]

\* line 146: a meta may ask for a signature the caller frame or the seeds give
SignerAllowed(b, offsets, meta, just_signed) ==
    ~(meta.is_signer /\ ~is_signer(b, offsets, meta.pubkey)
                     /\ meta.pubkey \notin just_signed)

\* line 141: a meta may ask for writability the caller frame has
WritableAllowed(b, offsets, meta) ==
    ~(meta.is_writable /\ ~is_writable(b, offsets, meta.pubkey))

\* lines 136-157: the loop over instruction.accounts from meta number i on.
\* kind "Ok" (all metas passed), "Err" (returned after one sol_log) or "Panic"
\* (index out of bounds at line 137, the expect of line 155, or a slice out of
\* range inside get_account_data)
RECURSIVE CheckMetas(_, _, _, _, _, _)
CheckMetas(b, offsets, metas, infos, just_signed, i) ==
    IF i > Len(metas) THEN [kind |-> "Ok", err |-> "", log |-> ""]
    ELSE IF i > Len(infos) THEN [kind |-> "Panic", err |-> "index out of bounds", log |-> ""]
    ELSE IF infos[i] # metas[i].pubkey
    THEN [kind |-> "Err", err |-> "InvalidAccountData",
          log |-> "Invoke: Accoune meta doesn't match account info"]
    ELSE IF ~WritableAllowed(b, offsets, metas[i])
    THEN [kind |-> "Err", err |-> "Custom(0)",
          log |-> "Invoke: Cannot instruction requres an non-writable account to be writable"]
    ELSE IF ~SignerAllowed(b, offsets, metas[i], just_signed)
    THEN [kind |-> "Err", err |-> "MissingRequiredSignature",
          log |-> "Invoke: Account needs to be signed"]
    ELSE IF get_account_data(b, offsets, metas[i].pubkey).kind # "Some"
    THEN [kind |-> "Panic", err |-> "To have the account info we were just passed", log |-> ""]
    ELSE CheckMetas(b, offsets, metas, infos, just_signed, i + 1)

\* the invocations whose program makes the CPI: metas naming both accounts or
\* only the second, every flag combination, the second account executable or not
CpiCallerMetas == {MetasOf(keys, k) : keys \in {<<1, 2>>, <<2>>}, k \in 0..3}

CpiCallerAccounts ==
    {[pk \in Pubkeys |->
        IF pk = 1
        THEN [lamports |-> 1, data |-> <<>>, owner |-> 1, executable |-> FALSE, rent_epoch |-> 0]
        ELSE [lamports |-> 5, data |-> <<1, 2, 3, 4>>, owner |-> 1, executable |-> e,
              rent_epoch |-> 513]] : e \in BOOLEAN}

CpiInit ==
    /\ blob_pc = "input"
    /\ in_instruction = <<>>
    /\ in_metas \in CpiCallerMetas
    /\ in_accounts \in CpiCallerAccounts
    /\ bytes = <<>>
    /\ account_offsets = EmptyMap
    /\ non_entrypointed_account_infos = EmptyMap
    /\ snapshot = NoSnapshot
    /\ set_call = NoSetCall
    /\ sysvar_call = NoSysvarCall
    /\ contexts \in {<<[nonce |-> 0, cpi_height |-> 1]>>,
                     <<[nonce |-> 0, cpi_height |-> 1], [nonce |-> 1, cpi_height |-> 2]>>}
    /\ instruction_accounts = <<>>
    /\ instruction_program_id = 0
    /\ cpi_result = NoCpiResult
    /\ account_infos = <<>>
    /\ signers_seeds = <<>>
    /\ syscall_result = NoSyscall
    /\ ipc = <<>>
    /\ invoke_result_senders = {}

\* the programs a sub-instruction may target: the system program (0), the
\* caller itself, another child
CpiTargets == {0} \cup Pubkeys

\* lines 153-156: the accounts of the metas as the caller's blob holds them
outgoing_account_datas(b, offsets, metas) ==
    [pk \in MetaPubkeys(metas) |-> get_account_data(b, offsets, pk).account]

\* line 171: program_id: self.program_id
CpiFrameProgramId(self_program_id, sub_program_id) == self_program_id

\* line 174: account_datas: HashMap::new()
CpiFrameAccountDatas(outgoing) == EmptyMap

\* BokkenSyscalls::sol_invoke_signed, called once by the program that runs on the
\* blob, until it returns, panics or blocks in receiver.blocking_recv()
sol_invoke_signed ==
    /\ blob_pc = "built"
    /\ syscall_result = NoSyscall
    /\ \E metas \in MetaSeqs(Pubkeys, MaxCpiMetas), seeds \in SignersSeeds,
          program_id \in CpiTargets :
         \E infos \in AccountInfosFor(metas) :
           LET top == contexts[Len(contexts)]
               just_signed == JustSigned(seeds, ProgramId)
               r == CheckMetas(bytes, account_offsets, metas, infos, just_signed.set, 1)
           IN /\ instruction_accounts' = metas
              /\ instruction_program_id' = program_id
              /\ account_infos' = infos
              /\ signers_seeds' = seeds
              /\ IF ~just_signed.ok
                 THEN /\ syscall_result' = [kind |-> "Err", err |-> "InvalidSeeds"]
                      /\ UNCHANGED <<ipc, invoke_result_senders>>
                 ELSE IF r.kind = "Err"
                 THEN /\ syscall_result' = [kind |-> "Err", err |-> r.err]
                      /\ ipc' = Append(ipc, [kind |-> "Log", nonce |-> top.nonce,
                                             message |-> r.log])
                      /\ UNCHANGED invoke_result_senders
                 ELSE IF r.kind = "Panic"
                 THEN /\ syscall_result' = [kind |-> "Panic", err |-> r.err]
                      /\ UNCHANGED <<ipc, invoke_result_senders>>
                 ELSE /\ syscall_result' = [kind |-> "Blocked", err |-> ""]
                      /\ invoke_result_senders' = invoke_result_senders \cup {top.nonce}
                      /\ ipc' = Append(ipc,
                            [kind          |-> "CrossProgramInvoke",
                             nonce         |-> top.nonce,
                             program_id    |-> CpiFrameProgramId(ProgramId, program_id),
                             instruction   |-> <<42>>,
                             account_metas |-> metas,
                             account_datas |->
                                CpiFrameAccountDatas(
                                    outgoing_account_datas(bytes, account_offsets, metas)),
                             call_depth    |-> top.cpi_height])
    /\ UNCHANGED <<blobVars, contexts, cpi_result>>
    /\ UNCHANGED notBlobCpi

\* the replies the validator may send: a return code and the accounts the
\* sub-call returned; data of 10245 bytes is above the cap of every account
ReplyAccount(n) ==
    [lamports |-> 9, data |-> [i \in 1..n |-> 8], owner |-> 2,
     executable |-> FALSE, rent_epoch |-> 0]

ReplyAccountMaps ==
    {EmptyMap, (2 :> ReplyAccount(1)), (1 :> ReplyAccount(1)),
     (2 :> ReplyAccount(MAX_PERMITTED_DATA_INCREASE + 5)),
     (1 :> ReplyAccount(1)) @@ (2 :> ReplyAccount(1))}

ReplyReturnCodes == {0, 1}

\* the orders in which a HashMap with these keys may be iterated
Orders(keys) ==
    {o \in SeqsOf(keys, Cardinality(keys), Cardinality(keys)) :
        \A k \in keys : \E i \in 1..Len(o) : o[i] = k}

\* mutant of WriteBack: only the first account of the reply is written
WriteBack_FirstOnly(b, offsets, account_datas, order, i) ==
    IF i > Len(order) THEN [kind |-> "Ok", err |-> "", bytes |-> b]
    ELSE set_account_data(b, offsets, order[i], account_datas[order[i]])

\* lines 184-186: set_account_data for each account of the reply, in the order
\* of iteration, left through `?` at the first error
RECURSIVE WriteBack(_, _, _, _, _)
WriteBack(b, offsets, account_datas, order, i) ==
    IF i > Len(order) THEN [kind |-> "Ok", err |-> "", bytes |-> b]
    ELSE LET r == set_account_data(b, offsets, order[i], account_datas[order[i]])
         IN IF r.kind = "Ok"
            THEN WriteBack(r.bytes, offsets, account_datas, order, i + 1)
            ELSE r

\* lines 180-193: the blocked thread receives the reply, writes the accounts
\* back, then panics on a non-zero return code or returns Ok(())
cpi_reply ==
    /\ syscall_result.kind = "Blocked"
    /\ \E return_code \in ReplyReturnCodes, account_datas \in ReplyAccountMaps :
         \E order \in Orders(DOMAIN account_datas) :
           LET w == WriteBack(bytes, account_offsets, account_datas, order, 1)
           IN /\ cpi_result' = [received |-> TRUE, return_code |-> return_code,
                                account_datas |-> account_datas]
              /\ bytes' = w.bytes
              /\ syscall_result' =
                    IF w.kind # "Ok" THEN [kind |-> w.kind, err |-> w.err]
                    ELSE IF return_code # 0
                    THEN [kind |-> "Panic", err |-> "CPI failed wirth return code"]
                    ELSE [kind |-> "Ok", err |-> ""]
    /\ invoke_result_senders' = invoke_result_senders
    /\ UNCHANGED <<blob_pc, in_instruction, in_metas, in_accounts, account_offsets,
                   non_entrypointed_account_infos, snapshot, set_call, sysvar_call>>
    /\ UNCHANGED <<contexts, instruction_accounts, instruction_program_id,
                   account_infos, signers_seeds, ipc>>
    /\ UNCHANGED notBlobCpi

CpiNext ==
    \/ BlobNew
    \/ sol_invoke_signed
    \/ cpi_reply

InitCpi == CpiInit /\ ChanInit /\ LedgerIdle /\ CallerIdle /\ ListenerIdle
    /\ ReturnDataIdle
    /\ SystemIdle
    /\ LocksIdle

SpecCpi == InitCpi /\ [][CpiNext]_vars

\* a meta of the CPI asks for more than the caller frame (and the seeds) give
Escalates ==
    \E i \in 1..Len(instruction_accounts) :
        LET meta == instruction_accounts[i]
        IN \/ meta.is_writable /\ ~is_writable(bytes, account_offsets, meta.pubkey)
           \/ /\ meta.is_signer
              /\ ~is_signer(bytes, account_offsets, meta.pubkey)
              /\ meta.pubkey \notin JustSigned(signers_seeds, ProgramId).set

\* C7: permission escalation. Once sol_invoke_signed was called with a CPI
\* instruction one of whose metas is writable without the caller's blob holding
\* the pubkey writable, or a signer that neither the caller's blob nor the
\* signer seeds sign for, the call has returned an error to the program, no
\* CrossProgramInvoke frame was sent and no reply slot is registered.
C7_PermissionEscalation ==
    (syscall_result # NoSyscall /\ Escalates) =>
        /\ syscall_result.kind = "Err"
        /\ \A i \in 1..Len(ipc) : ipc[i].kind # "CrossProgramInvoke"
        /\ invoke_result_senders = {}

\* the part of C7 about the wire alone: no frame and no reply slot
C7_NoFrameNoSlot ==
    (syscall_result # NoSyscall /\ Escalates) =>
        /\ syscall_result.kind \in {"Err", "Panic"}
        /\ \A i \in 1..Len(ipc) : ipc[i].kind # "CrossProgramInvoke"
        /\ invoke_result_senders = {}

\* the CrossProgramInvoke frames the syscall has put on the wire
CpiFrames == {ipc[i] : i \in {j \in 1..Len(ipc) : ipc[j].kind = "CrossProgramInvoke"}}

\* C15: CPI account snapshot. While the thread is blocked on the reply, the
\* CrossProgramInvoke frame sol_invoke_signed emitted carries in account_datas
\* exactly the pubkeys named by the sub-instruction's metas, each with the
\* account value the caller's blob currently holds.
C15_CpiAccountSnapshot ==
    syscall_result.kind = "Blocked" =>
        \A f \in CpiFrames :
            /\ DOMAIN f.account_datas = MetaPubkeys(f.account_metas)
            /\ \A pk \in MetaPubkeys(f.account_metas) :
                   f.account_datas[pk] = get_account_data(bytes, account_offsets, pk).account

\* C16: CPI target. The program_id of every CrossProgramInvoke frame is the
\* program id of the sub-instruction passed to sol_invoke_signed, also when
\* that is another program than the caller.
C16_CpiTarget ==
    \A f \in CpiFrames : f.program_id = instruction_program_id

\* C17: a failed CPI is never observable. Once the reply with a non-zero
\* return code was received, sol_invoke_signed has ended by panic, whatever
\* the reply's account map holds; it returned neither Ok nor Err.
C17_FailedCpiPanics ==
    (cpi_result.received /\ cpi_result.return_code # 0) =>
        syscall_result.kind = "Panic"

(***************************************************************************)
(* Instruction executor and ledger: BokkenLedger::execute_transaction and   *)
(* execute_instructions (debug_ledger.rs), with ProgramCaller::call_program *)
(* as the awaited call whose outcome the invoked programs decide            *)
(***************************************************************************)
FeePerSignature == 5000                \* debug_ledger.rs line 387
MaxIxs == 2                            \* instructions of one transaction

LedgerProgramId == 10                  \* a registered program (has_program_id)
RentId == 101                          \* solana_sdk::sysvar::rent::id()
ClockId == 102                         \* solana_sdk::sysvar::clock::id()

LedgerKeys == {1, 2}

\* BokkenAccountData::default()
DefaultAccount ==
    [lamports |-> 0, data |-> <<>>, owner |-> 0, executable |-> FALSE, rent_epoch |-> 0]

FundedAccount(l) ==
    [lamports |-> l, data |-> <<>>, owner |-> 0, executable |-> FALSE, rent_epoch |-> 0]

MaxOf(S) == CHOOSE x \in S : \A y \in S : y <= x

\* BokkenLedger::read_account (lines 145-241): the ghost account of a program,
\* the synthesized sysvars, else the file of the highest slot, else the default
read_account(files, pubkey, clock_slot) ==
    IF pubkey = LedgerProgramId THEN [synthesized |-> "program"]
    ELSE IF pubkey = ClockId THEN [synthesized |-> "clock", slot |-> clock_slot]
    ELSE IF pubkey = RentId THEN [synthesized |-> "rent"]
    ELSE IF pubkey \in DOMAIN files /\ DOMAIN files[pubkey] # {}
    THEN files[pubkey][MaxOf(DOMAIN files[pubkey])]
    ELSE DefaultAccount

\* BokkenLedger::save_account (lines 129-144): the file accounts/<pubkey>/<slot>
save_account(files, cur_slot, pubkey, data) ==
    MapInsert(files, pubkey,
              MapInsert(IF pubkey \in DOMAIN files THEN files[pubkey] ELSE EmptyMap,
                        cur_slot,
                        IF data.lamports = 0 THEN DefaultAccount ELSE data))

\* lines 401-409 with commit_changes: save_account for every edited account
RECURSIVE SaveAll(_, _, _, _)
SaveAll(files, cur_slot, changed, edited) ==
    IF edited = {} THEN files
    ELSE LET pk == CHOOSE k \in edited : TRUE
         IN SaveAll(save_account(files, cur_slot, pk, changed[pk]), cur_slot,
                    changed, edited \ {pk})

\* the metas an instruction of the model names its accounts with
LedgerMetas == {
    <<>>,
    <<[pubkey |-> 1, is_signer |-> TRUE, is_writable |-> TRUE]>>,
    <<[pubkey |-> 2, is_signer |-> TRUE, is_writable |-> FALSE]>>,
    <<[pubkey |-> 1, is_signer |-> FALSE, is_writable |-> TRUE],
      [pubkey |-> 2, is_signer |-> TRUE, is_writable |-> TRUE]>> }

LedgerIxs == {[program_id |-> LedgerProgramId, account_metas |-> m, data |-> <<>>] :
                m \in LedgerMetas}

LedgerTxs ==
    {[fee_payer |-> f, instructions |-> ixs, signature |-> 1,
      commit_changes |-> c, entry |-> e] :
        f \in LedgerKeys, ixs \in SeqsOf(LedgerIxs, 0, MaxIxs), c \in BOOLEAN,
        e \in {"execute_transaction", "execute_instructions"}}

\* lines 351-376: unique_sigs
SignerKeys(account_metas) ==
    {account_metas[j].pubkey :
        j \in {n \in 1..Len(account_metas) : account_metas[n].is_signer}}

UniqueSigs(fee_payer, instructions) ==
    {fee_payer} \cup
    UNION {SignerKeys(instructions[i].account_metas) : i \in 1..Len(instructions)}

\* lines 353-378: the keys read_account is called for
LoadedKeys(fee_payer, instructions) ==
    {fee_payer, RentId, ClockId} \cup
    UNION {MetaPubkeys(instructions[i].account_metas) : i \in 1..Len(instructions)}

\* What call_program can answer for one instruction: an error of the caller
\* itself (Err), or the program's return code with the account map it left.
\* The edit "move" is a program that moves one lamport from the account of its
\* first meta to the account of its last meta.
CallOutcomes ==
    {[kind |-> "Err", return_code |-> 0, edit |-> "none"]} \cup
    {[kind |-> "Ok", return_code |-> rc, edit |-> e] :
        rc \in {0, 1}, e \in {"none", "move"}}

ApplyEdit(for_ix, account_metas, edit) ==
    IF edit = "none" \/ account_metas = <<>> THEN for_ix
    ELSE LET from == account_metas[1].pubkey
             to == account_metas[Len(account_metas)].pubkey
         IN IF from = to \/ for_ix[from].lamports < 1 THEN for_ix
            ELSE [for_ix EXCEPT ![from].lamports = @ - 1, ![to].lamports = @ + 1]

\* the log lines call_program returns for instruction i: its two bookends
CallLogs(i, return_code) ==
    <<[ix |-> i, line |-> "invoke"],
      [ix |-> i, line |-> IF return_code = 0 THEN "success" ELSE "returned"]>>

\* return Err(e) from execute_instructions: nothing saved, nothing appended
ReturnErr(result) ==
    /\ tx_result' = result
    /\ ledger_pc' = "returned"
    /\ UNCHANGED <<storeVars, ix_index, calls, saved_accounts, ix_given>>

\* execute_instruction lines 249-269: the map call_program is given, clones of
\* the two sysvars and the accounts of the metas, taken out of the working map
AccountDatasForIx(working, ix) ==
    [pk \in {RentId, ClockId} \cup MetaPubkeys(ix.account_metas) |-> working[pk]]

\* mutant of SpliceReturned: the accounts go back as they were taken out
SpliceReturned_AsTaken(working, ix, returned) ==
    [pk \in DOMAIN working \cup DOMAIN returned |->
        IF pk \in DOMAIN working THEN working[pk] ELSE returned[pk]]

\* execute_instruction lines 262-265 and 280-284: the working map after the
\* accounts of the metas were removed from it and every returned account was
\* inserted
SpliceReturned(working, ix, returned) ==
    LET taken == MetaPubkeys(ix.account_metas) \ {RentId, ClockId}
    IN [pk \in (DOMAIN working \ taken) \cup DOMAIN returned |->
           IF pk \in DOMAIN returned THEN returned[pk] ELSE working[pk]]

\* execute_instruction lines 249-278 for instruction i: the accounts of its metas
\* are taken out of the working map and call_program is awaited
StartCall(t, changed, i) ==
    IF MetaPubkeys(t.instructions[i + 1].account_metas) \subseteq DOMAIN changed
    THEN /\ ledger_pc' = "call_program"
         /\ ix_index' = i
         /\ calls' = Append(calls, i)
         /\ ix_given' = Append(ix_given,
                               AccountDatasForIx(changed, t.instructions[i + 1]))
         /\ UNCHANGED <<storeVars, tx_result, saved_accounts>>
    ELSE ReturnErr([kind |-> "Err", err |-> "AccountNotFound"])

\* ProgramCaller-independent rest of a transaction whose instructions all
\* returned 0: execute_instructions lines 399-411 (the edited accounts are saved
\* when commit_changes) and execute_transaction lines 323-334 (the signature is
\* indexed and the block appended when commit_changes)
\* mutant of EditedAccounts: every loaded account of the store counts as edited
EditedAccounts_All(loaded, changed) == DOMAIN loaded \cap LedgerKeys

\* lines 399-411: the loaded accounts whose final value differs (new_data != old_data)
EditedAccounts(loaded, changed) == {pk \in DOMAIN loaded : changed[pk] # loaded[pk]}

CommitSaves_Always(t, loaded, changed, edited) ==
    SaveAll(account_files, slot, changed, edited)

CommitSaves(t, loaded, changed, edited) ==
    IF t.commit_changes THEN SaveAll(account_files, slot, changed, edited)
    ELSE account_files

Finish(t, loaded, changed, log) ==
    LET edited == EditedAccounts(loaded, changed)
        new_slot == slot + 1
    IN IF ~(DOMAIN loaded \subseteq DOMAIN changed)
       THEN ReturnErr([kind |-> "Panic", err |-> "unwrap on None"])
       ELSE /\ account_files' = CommitSaves(t, loaded, changed, edited)
            /\ saved_accounts' = IF t.commit_changes THEN [pk \in edited |-> changed[pk]]
                                  ELSE EmptyMap
            /\ IF t.entry = "execute_transaction" /\ t.commit_changes
               THEN /\ transaction_index' = MapInsert(transaction_index, t.signature, new_slot)
                    /\ blocks' = Append(blocks,
                                   [slot |-> new_slot, block_height |-> new_slot,
                                    block_hash |-> slot, tx_data |-> t.signature,
                                    tx_error |-> "None", tx_logs |-> log])
                    /\ slot' = new_slot
                    /\ blockhash' = new_slot
               ELSE UNCHANGED <<transaction_index, blocks, slot, blockhash>>
            /\ tx_result' = [kind |-> "Ok", logs |-> log]
            /\ ledger_pc' = "returned"
            /\ UNCHANGED <<ix_index, calls, ix_given>>

\* lines 386-388: checked_sub of the fee; ok is FALSE on underflow
FeeCheck_Saturating(lamports, fee) ==
    [ok |-> TRUE, lamports |-> IF lamports < fee THEN 0 ELSE lamports - fee]

FeeCheck(lamports, fee) ==
    [ok |-> lamports >= fee, lamports |-> IF lamports >= fee THEN lamports - fee ELSE 0]

\* line 395: a non-zero return code aborts the transaction
AbortsOn_Never(return_code) ==
    FALSE

AbortsOn(return_code) ==
    return_code # 0

\* The ledgers a transaction starts from: a fresh one (slot 0, the accounts as
\* first written) and one after two committed transactions (slot 2, account 1
\* saved at slots 0 and 1). Account 1 holds less than one fee, exactly one fee,
\* or several; account 2 does not exist or holds several fees.
LedgerStores ==
    {[files |-> (IF l2 = 0 THEN EmptyMap ELSE (2 :> (0 :> FundedAccount(l2))))
                @@ (1 :> (IF s = 0 THEN (0 :> FundedAccount(l1))
                          ELSE (0 :> FundedAccount(20000)) @@ (1 :> FundedAccount(l1)))),
      slot |-> s,
      blocks |-> [i \in 1..s |-> [slot |-> i, block_height |-> i, block_hash |-> i - 1,
                                  tx_data |-> 1 + i, tx_error |-> "None", tx_logs |-> <<>>]],
      transaction_index |-> [sig \in {1 + i : i \in 1..s} |-> sig - 1]] :
        l1 \in {4999, 5000, 15000}, l2 \in {0, 10000}, s \in {0, 2}}

LedgerInit ==
    /\ \E st \in LedgerStores :
        /\ account_files = st.files
        /\ slot = st.slot
        /\ blockhash = st.slot
        /\ blocks = st.blocks
        /\ transaction_index = st.transaction_index
    /\ ledger_pc = "idle"
    /\ tx = NoTx
    /\ ix_index = 0
    /\ account_datas_loaded = EmptyMap
    /\ account_datas_changed = EmptyMap
    /\ the_big_log = <<>>
    /\ tx_result = NoResult
    /\ calls = <<>>
    /\ ledger_before = <<>>
    /\ fee_payer_moved = 0
    /\ saved_accounts = EmptyMap
    /\ ix_given = <<>>
    /\ ix_returned = <<>>

\* execute_transaction / execute_instructions from the call until the first
\* await of call_program (or, with no instruction, until it returns): the accounts
\* are loaded (lines 353-378) and the fee is taken from the working copy (379-390)
execute_instructions ==
    /\ ledger_pc = "idle"
    /\ \E t \in LedgerTxs :
        LET clock_slot == IF t.entry = "execute_transaction" THEN slot + 1 ELSE slot
            loaded == [pk \in LoadedKeys(t.fee_payer, t.instructions) |->
                          read_account(account_files, pk, clock_slot)]
            fee == FeePerSignature * Cardinality(UniqueSigs(t.fee_payer, t.instructions))
            paid == FeeCheck(loaded[t.fee_payer].lamports, fee)
            changed == [loaded EXCEPT ![t.fee_payer].lamports = paid.lamports]
        IN /\ tx' = t
           /\ ledger_before' = storeVars
           /\ account_datas_loaded' = loaded
           /\ UNCHANGED <<the_big_log, fee_payer_moved, ix_returned>>
           /\ IF ~paid.ok
              THEN /\ account_datas_changed' = loaded
                   /\ ReturnErr([kind |-> "Err", err |-> "InsufficientFundsForFee"])
              ELSE /\ account_datas_changed' = changed
                   /\ IF t.instructions = <<>>
                      THEN Finish(t, loaded, changed, <<>>)
                      ELSE StartCall(t, changed, 0)
    /\ UNCHANGED notLedger

\* call_program for instruction ix_index returns (execute_instruction lines
\* 278-285, execute_instructions lines 393-398), and the transaction goes on
\* until the next await of call_program or until it returns
call_program_returns ==
    /\ ledger_pc = "call_program"
    /\ \E o \in CallOutcomes :
        LET ix == tx.instructions[ix_index + 1]
            for_ix == AccountDatasForIx(account_datas_changed, ix)
            returned == ApplyEdit(for_ix, ix.account_metas, o.edit)
            changed == SpliceReturned(account_datas_changed, ix, returned)
            log == the_big_log \o CallLogs(ix_index, o.return_code)
        IN IF o.kind = "Err"
           THEN /\ ReturnErr([kind |-> "Err", err |-> "Stopping"])
                /\ UNCHANGED <<account_datas_changed, the_big_log, fee_payer_moved,
                               ix_returned>>
           ELSE /\ account_datas_changed' = changed
                /\ ix_returned' = Append(ix_returned, returned)
                /\ the_big_log' = log
                /\ fee_payer_moved' = fee_payer_moved
                       + changed[tx.fee_payer].lamports
                       - account_datas_changed[tx.fee_payer].lamports
                /\ IF AbortsOn(o.return_code)
                   THEN ReturnErr([kind |-> "Err", err |-> "InstructionExecError",
                                   index |-> ix_index, return_code |-> o.return_code,
                                   logs |-> log])
                   ELSE IF ix_index + 1 < Len(tx.instructions)
                   THEN StartCall(tx, changed, ix_index + 1)
                   ELSE Finish(tx, account_datas_loaded, changed, log)
    /\ UNCHANGED <<tx, ledger_before, account_datas_loaded>>
    /\ UNCHANGED notLedger

LedgerNext ==
    \/ execute_instructions
    \/ call_program_returns

InitLedger == LedgerInit /\ ChanInit /\ BlobIdle /\ CpiIdle /\ CallerIdle /\ ListenerIdle
    /\ ReturnDataIdle
    /\ SystemIdle
    /\ LocksIdle

SpecLedger == InitLedger /\ [][LedgerNext]_vars

\* the fee of the transaction in hand and what its fee payer held when loaded
TxFee == FeePerSignature * Cardinality(UniqueSigs(tx.fee_payer, tx.instructions))

FeePayerLoaded == account_datas_loaded[tx.fee_payer].lamports

\* the fee payer's lamports as the ledger stores them now / stored them before
FeePayerStored == read_account(account_files, tx.fee_payer, slot).lamports

FeePayerStoredBefore == read_account(ledger_before[1], tx.fee_payer, slot).lamports

\* C3: fee accounting. After a committed transaction (execute_transaction with
\* commit_changes) whose fee payer held at least 5000 * k lamports, k the number
\* of unique signers, the fee payer's stored lamports are lower by exactly
\* 5000 * k, apart from what the instructions moved, both when every
\* instruction returned 0 and when an instruction returned non-zero.
C3_FeeAccounting ==
    (/\ ledger_pc = "returned"
     /\ tx.entry = "execute_transaction"
     /\ tx.commit_changes
     /\ FeePayerLoaded >= TxFee
     /\ \/ tx_result.kind = "Ok"
        \/ tx_result.kind = "Err" /\ tx_result.err = "InstructionExecError")
    => FeePayerStored = FeePayerStoredBefore - TxFee + fee_payer_moved

\* the half of C3 the code keeps: every instruction returned 0
C3_FeeOnSuccess ==
    (/\ ledger_pc = "returned"
     /\ tx.entry = "execute_transaction"
     /\ tx.commit_changes
     /\ tx_result.kind = "Ok")
    => FeePayerStored = FeePayerStoredBefore - TxFee + fee_payer_moved

\* C4: fee exhaustion. When the fee payer's loaded lamports are less than
\* 5000 * k, the call has returned InsufficientFundsForFee, call_program was
\* called for no instruction, and accounts, slot, blockhash, blocks and
\* transaction index are what they were, with commit_changes true or false.
C4_FeeExhaustion ==
    (tx # NoTx /\ FeePayerLoaded < TxFee) =>
        /\ ledger_pc = "returned"
        /\ tx_result = [kind |-> "Err", err |-> "InsufficientFundsForFee"]
        /\ calls = <<>>
        /\ storeVars = ledger_before

\* a committing transaction of two signers whose payer holds one fee only
C4_Witness ==
    /\ tx # NoTx
    /\ tx.commit_changes
    /\ tx.instructions # <<>>
    /\ FeePayerLoaded = FeePerSignature
    /\ TxFee = 2 * FeePerSignature
    /\ tx_result = [kind |-> "Err", err |-> "InsufficientFundsForFee"]

\* C5: non-commit is a no-op. From the call of execute_instructions or
\* execute_transaction with commit_changes = FALSE on, whatever the programs
\* answer, every stored account, the slot, the blockhash, the block history and
\* the transaction index are what they were before the call.
C5_NonCommitNoOp ==
    (tx # NoTx /\ ~tx.commit_changes) => storeVars = ledger_before

\* a simulation that succeeded and whose programs edited accounts
C5_Witness ==
    /\ tx # NoTx
    /\ ~tx.commit_changes
    /\ ledger_pc = "returned"
    /\ tx_result.kind = "Ok"
    /\ Len(tx.instructions) = 2
    /\ \E pk \in LedgerKeys \cap DOMAIN account_datas_loaded :
           /\ pk # tx.fee_payer
           /\ account_datas_changed[pk] # account_datas_loaded[pk]

\* C24: commit persists exactly the edited accounts. After a committing call
\* has succeeded, save_account was called with the final value for every
\* account loaded at the start whose final value differs from the loaded one,
\* and for no other account; the files of the other accounts are what they
\* were.
C24_CommitExactlyEdited ==
    (tx # NoTx /\ tx.commit_changes /\ ledger_pc = "returned" /\ tx_result.kind = "Ok") =>
        /\ \A pk \in DOMAIN account_datas_loaded :
              IF account_datas_changed[pk] # account_datas_loaded[pk]
              THEN /\ pk \in DOMAIN saved_accounts
                   /\ saved_accounts[pk] = account_datas_changed[pk]
              ELSE pk \notin DOMAIN saved_accounts
        /\ DOMAIN saved_accounts \subseteq DOMAIN account_datas_loaded
        /\ \A pk \in DOMAIN account_files :
              pk \notin DOMAIN saved_accounts =>
                  /\ pk \in DOMAIN ledger_before[1]
                  /\ account_files[pk] = ledger_before[1][pk]

\* a committing transaction of two instructions succeeded; the fee payer was
\* saved and another account it had loaded from the store was left as it was
C24_Witness ==
    /\ tx # NoTx
    /\ tx.commit_changes
    /\ ledger_pc = "returned"
    /\ tx_result.kind = "Ok"
    /\ Len(tx.instructions) = 2
    /\ tx.fee_payer \in DOMAIN saved_accounts
    /\ \E pk \in LedgerKeys \cap DOMAIN account_datas_loaded :
           pk \notin DOMAIN saved_accounts

\* the instructions that returned a non-zero code, read off their terminal line
FailedIxs ==
    {the_big_log[n].ix : n \in {m \in 1..Len(the_big_log) : the_big_log[m].line = "returned"}}

\* C6: abort without commit. When instruction i is the first to return a
\* non-zero code, the call has returned InstructionExecError(i, code, logs) with
\* the logs of instructions 0..i, call_program was called for instructions 0..i
\* and no other, and even with commit_changes no account was saved, no block
\* appended and no signature indexed.
C6_AbortWithoutCommit ==
    \A i \in FailedIxs :
        /\ ledger_pc = "returned"
        /\ tx_result.kind = "Err"
        /\ tx_result.err = "InstructionExecError"
        /\ tx_result.index = i
        /\ tx_result.return_code # 0
        /\ tx_result.logs = the_big_log
        /\ Len(the_big_log) = 2 * (i + 1)
        /\ \A j \in 0..i : /\ the_big_log[2 * j + 1] = [ix |-> j, line |-> "invoke"]
                           /\ the_big_log[2 * j + 2].ix = j
        /\ calls = [j \in 1..(i + 1) |-> j - 1]
        /\ storeVars = ledger_before

\* a committing transaction whose second instruction failed after the first had
\* edited an account
C6_Witness ==
    /\ tx # NoTx
    /\ tx.commit_changes
    /\ tx.entry = "execute_transaction"
    /\ FailedIxs = {1}
    /\ \E pk \in LedgerKeys \cap DOMAIN account_datas_loaded :
           /\ pk # tx.fee_payer
           /\ account_datas_changed[pk] # account_datas_loaded[pk]

(***************************************************************************)
(* Program caller (program_caller.rs) and the children it drives: the       *)
(* syscall shim and the execution thread of each child (sol_syscalls.rs,    *)
(* executor.rs). Frames travel whole and in order on each connection.       *)
(***************************************************************************)
MaxCalls == 1                          \* top-level calls of call_program
MaxSyscalls == 2                       \* syscalls of all programs

SyscallMsgCapacity == 1                \* mpsc::channel::<..SyscallMsg>(1)
SystemProgramId == 0                   \* system_program::id(), the built-in
ChildIds == {1}                        \* the programs that registered a channel
UnregisteredId == 3                    \* a program id nobody registered
TopCallDepth == 1                      \* execute_instructions calls with depth 1

\* u64 return codes as two 32-bit halves
Success == [hi |-> 0, lo |-> 0]

CUSTOM_ZERO == [hi |-> 1, lo |-> 0]    \* u64::from(ProgramError::Custom(0)) = 1 << 32

ProgramReturnCodes == {Success, [hi |-> 0, lo |-> 1]}

\* a built-in runs without a nonce
NoNonce == -1

\* the account map the top-level caller passes
CallerAccounts == (1 :> FundedAccount(7))

\* the log lines of program_caller.rs lines 190-197 and 235-239
InvokeLine(program_id, call_depth) ==
    [line |-> "invoke", program_id |-> program_id, call_depth |-> call_depth]

TerminalLine(program_id, return_code) ==
    IF return_code = Success
    THEN [line |-> "success", program_id |-> program_id]
    ELSE [line |-> "returned", program_id |-> program_id, err |-> return_code]

Count(m, k) == IF k \in DOMAIN m THEN m[k] ELSE 0

Bump(m, k) == MapInsert(m, k, Count(m, k) + 1)

\* one more piece of the history of a nonce
Record(m, nonce, events) ==
    MapInsert(m, nonce, (IF nonce \in DOMAIN m THEN m[nonce] ELSE <<>>) \o events)

\* the validator's variables as one record, for the operators below
Validator ==
    [COMM_NONCE |-> COMM_NONCE, exec_logs |-> exec_logs, exec_results |-> exec_results,
     native_logs |-> native_logs, to_child |-> to_child, call_stack |-> call_stack,
     call_result |-> call_result, last_return |-> last_return,
     cpi_answered |-> cpi_answered]

\* call_program returns Err(err): every `?` up the recursion passes it on
Fail(v, err) ==
    [v EXCEPT !.call_stack = <<>>, !.call_result = [kind |-> "Err", err |-> err]]

\* mutant of Answer: the sub-invocation's lines are put before the lines
\* already in the buffer
Answer_SubLogsFirst(v, ret) ==
    LET top == Len(v.call_stack)
        f == v.call_stack[top]
    IN IF f.program_id \notin DOMAIN v.to_child
       THEN Fail(v, "AccountNotFound")
       ELSE [v EXCEPT
               !.exec_logs = IF f.nonce \in DOMAIN @
                             THEN [@ EXCEPT ![f.nonce] = ret.logs \o @]
                             ELSE @,
               !.to_child = [@ EXCEPT ![f.program_id] =
                               Append(@, [kind |-> "CrossProgramInvokeResult",
                                          nonce |-> f.nonce,
                                          return_code |-> ret.return_code,
                                          account_datas |-> ret.account_datas])],
               !.cpi_answered = Bump(@, f.nonce),
               !.call_stack = [@ EXCEPT ![top].pc = "check",
                                        ![top].sub_invocations = @ + ret.invocations]]

\* mutant of Answer: the reply carries the nonce of the sub-call
Answer_SubNonce(v, ret) ==
    LET top == Len(v.call_stack)
        f == v.call_stack[top]
    IN IF f.program_id \notin DOMAIN v.to_child
       THEN Fail(v, "AccountNotFound")
       ELSE [v EXCEPT
               !.exec_logs = IF f.nonce \in DOMAIN @
                             THEN [@ EXCEPT ![f.nonce] = @ \o ret.logs]
                             ELSE @,
               !.to_child = [@ EXCEPT ![f.program_id] =
                               Append(@, [kind |-> "CrossProgramInvokeResult",
                                          nonce |-> ret.nonce,
                                          return_code |-> ret.return_code,
                                          account_datas |-> ret.account_datas])],
               !.cpi_answered = Bump(@, f.nonce),
               !.call_stack = [@ EXCEPT ![top].pc = "check",
                                        ![top].sub_invocations = @ + ret.invocations]]

\* lines 257-270: the activation on top of the stack gets the result of its
\* sub-call, splices the sub-logs, sends the CPI reply on its own program's
\* channel and goes back to the head of its loop
Answer(v, ret) ==
    LET top == Len(v.call_stack)
        f == v.call_stack[top]
    IN IF f.program_id \notin DOMAIN v.to_child
       THEN Fail(v, "AccountNotFound")
       ELSE [v EXCEPT
               !.exec_logs = IF f.nonce \in DOMAIN @
                             THEN [@ EXCEPT ![f.nonce] = @ \o ret.logs]
                             ELSE @,
               !.to_child = [@ EXCEPT ![f.program_id] =
                               Append(@, [kind |-> "CrossProgramInvokeResult",
                                          nonce |-> f.nonce,
                                          return_code |-> ret.return_code,
                                          account_datas |-> ret.account_datas])],
               !.cpi_answered = Bump(@, f.nonce),
               !.call_stack = [@ EXCEPT ![top].pc = "check",
                                        ![top].sub_invocations = @ + ret.invocations]]

\* a call_program returned Ok(ret): to the top-level caller, or to the
\* activation that made the sub-call
Deliver(v, ret) ==
    IF v.call_stack = <<>>
    THEN [v EXCEPT !.call_result = ret, !.last_return = ret]
    ELSE Answer([v EXCEPT !.last_return = ret], ret)

\* what BokkenSystemProgram::exec does: Ok or Err, after logging msgs
NativeOutcomes ==
    {[return_code |-> Success, msgs |-> <<>>],
     [return_code |-> [hi |-> 0, lo |-> 2], msgs |-> <<>>],
     [return_code |-> [hi |-> 0, lo |-> 2], msgs |-> <<[line |-> "logged", message |-> "native"]>>]}

\* lines 235-241: the log list of an invocation that Executed
ExecutedLogs_NoInvokeLine(program_id, call_depth, return_code, exec_log) ==
    exec_log \o <<TerminalLine(program_id, return_code)>>

ExecutedLogs(program_id, call_depth, return_code, exec_log) ==
    <<InvokeLine(program_id, call_depth)>> \o exec_log
        \o <<TerminalLine(program_id, return_code)>>

\* mutant of Enter: the nonce is read without being incremented
Enter_SameNonce(v, program_id, call_depth, account_datas, native) ==
    IF program_id = SystemProgramId
    THEN LET logs == <<InvokeLine(program_id, call_depth)>> \o native.msgs
                         \o <<TerminalLine(program_id, native.return_code)>>
         IN Deliver([v EXCEPT !.native_logs = logs],
                    [kind |-> "Ok", program_id |-> program_id, call_depth |-> call_depth,
                     nonce |-> NoNonce,
                     return_code |-> native.return_code, logs |-> logs,
                     account_datas |-> account_datas, invocations |-> 1])
    ELSE IF program_id \notin DOMAIN v.to_child
    THEN Fail(v, "AccountNotFound")
    ELSE [v EXCEPT
            !.to_child = [@ EXCEPT ![program_id] =
                            Append(@, [kind |-> "Invoke", nonce |-> v.COMM_NONCE,
                                       program_id |-> program_id,
                                       account_datas |-> account_datas,
                                       call_depth |-> call_depth])],
            !.exec_logs = MapInsert(@, v.COMM_NONCE, <<>>),
            !.call_stack = Append(@, [program_id |-> program_id, nonce |-> v.COMM_NONCE,
                                      call_depth |-> call_depth, pc |-> "check",
                                      sub_invocations |-> 0])]

\* lines 187-220: call_program is entered. A built-in runs in place and returns;
\* a child gets a nonce, the Invoke frame and a log buffer, and the activation
\* starts to wait
Enter(v, program_id, call_depth, account_datas, native) ==
    IF program_id = SystemProgramId
    THEN LET logs == <<InvokeLine(program_id, call_depth)>> \o native.msgs
                         \o <<TerminalLine(program_id, native.return_code)>>
         IN Deliver([v EXCEPT !.native_logs = logs],
                    [kind |-> "Ok", program_id |-> program_id, call_depth |-> call_depth,
                     nonce |-> NoNonce,
                     return_code |-> native.return_code, logs |-> logs,
                     account_datas |-> account_datas, invocations |-> 1])
    ELSE LET nonce == v.COMM_NONCE
             v1 == [v EXCEPT !.COMM_NONCE = @ + 1]
         IN IF program_id \notin DOMAIN v.to_child
            THEN Fail(v1, "AccountNotFound")
            ELSE [v1 EXCEPT
                    !.to_child = [@ EXCEPT ![program_id] =
                                    Append(@, [kind |-> "Invoke", nonce |-> nonce,
                                               program_id |-> program_id,
                                               account_datas |-> account_datas,
                                               call_depth |-> call_depth])],
                    !.exec_logs = MapInsert(@, nonce, <<>>),
                    !.call_stack = Append(@, [program_id |-> program_id, nonce |-> nonce,
                                              call_depth |-> call_depth, pc |-> "check",
                                              sub_invocations |-> 0])]

\* lines 226-242: the activation on top of the stack got Executed
Executed(v, status) ==
    LET top == Len(v.call_stack)
        f == v.call_stack[top]
        exec_log == IF f.nonce \in DOMAIN v.exec_logs THEN v.exec_logs[f.nonce] ELSE <<>>
    IN Deliver([v EXCEPT !.exec_logs = MapRemove(@, f.nonce),
                         !.call_stack = SubSeq(@, 1, top - 1)],
               [kind |-> "Ok", program_id |-> f.program_id, call_depth |-> f.call_depth,
                nonce |-> f.nonce,
                return_code |-> status.return_code,
                logs |-> ExecutedLogs(f.program_id, f.call_depth, status.return_code,
                                      exec_log),
                account_datas |-> status.account_datas,
                invocations |-> 1 + f.sub_invocations])

\* the validator's variables take the values of the record
Becomes(v) ==
    /\ COMM_NONCE' = v.COMM_NONCE
    /\ exec_logs' = v.exec_logs
    /\ exec_results' = v.exec_results
    /\ native_logs' = v.native_logs
    /\ to_child' = v.to_child
    /\ call_stack' = v.call_stack
    /\ call_result' = v.call_result
    /\ last_return' = v.last_return
    /\ cpi_answered' = v.cpi_answered

\* ProgramCaller::new with the channels of ChildIds registered, and the
\* children after debug_runtime_main has set up the shim
CallerInit ==
    /\ should_stop = FALSE
    /\ COMM_NONCE = 0
    /\ exec_logs = EmptyMap
    /\ exec_results = EmptyMap
    /\ exec_notif = 0
    /\ notif_seen = 0
    /\ recieve_handle = "running"
    /\ native_logs = <<>>
    /\ to_child = [p \in ChildIds |-> <<>>]
    /\ from_child = [p \in ChildIds |-> <<>>]
    /\ call_stack = <<>>
    /\ call_result = NoCall
    /\ child = [p \in ChildIds |->
                  [contexts |-> <<>>, threads |-> EmptyMap,
                   invoke_result_senders |-> EmptyMap, syscall_msgs |-> <<>>]]
    /\ calls_made = 0
    /\ cpis_made = 0
    /\ logs_made = 0
    /\ heights_made = 0
    /\ stack_height_seen = NoHeight
    /\ last_return = NoCall
    /\ cpi_received = EmptyMap
    /\ cpi_answered = EmptyMap
    /\ cpi_emitted = EmptyMap
    /\ executed_emitted = {}
    /\ child_events = EmptyMap

\* what the validator-side actions leave alone
childSide == <<from_child, child, cpis_made, logs_made, heights_made,
               stack_height_seen, cpi_emitted, executed_emitted, child_events>>

\* ProgramCaller::call_program called by execute_instruction (lines 178-220)
\* The observations (cpi_received, cpi_answered, cpi_emitted, executed_emitted,
\* child_events, stack_height_seen) are kept per top-level call and start afresh
\* here; the program's own state is carried over.
call_program ==
    /\ call_stack = <<>>
    /\ calls_made < MaxCalls
    /\ \E program_id \in {SystemProgramId, UnregisteredId} \cup ChildIds,
          native \in NativeOutcomes :
         Becomes(Enter([Validator EXCEPT !.call_result = NoCall,
                                         !.last_return = NoCall,
                                         !.cpi_answered = EmptyMap], program_id,
                       TopCallDepth, CallerAccounts, native))
    /\ calls_made' = calls_made + 1
    /\ cpi_received' = EmptyMap
    /\ cpi_emitted' = EmptyMap
    /\ executed_emitted' = {}
    /\ child_events' = EmptyMap
    /\ stack_height_seen' = NoHeight
    /\ UNCHANGED <<should_stop, exec_notif, notif_seen, recieve_handle>>
    /\ UNCHANGED <<from_child, child, cpis_made, logs_made, heights_made>>
    /\ UNCHANGED notCaller

\* The innermost call_program at the head of its loop (lines 221-225) and
\* wait_for_exec_status up to its await (lines 161-172): Stopping, or the
\* completion of its nonce is taken and handled (lines 226-271), or it goes to
\* await exec_notif.changed()
wait_for_exec_status ==
    /\ call_stack # <<>>
    /\ LET top == Len(call_stack)
           f == call_stack[top]
       IN /\ f.pc = "check"
          /\ IF should_stop
             THEN Becomes(Fail(Validator, "Stopping"))
             ELSE IF f.nonce \in DOMAIN exec_results
             THEN LET status == exec_results[f.nonce]
                      v == [Validator EXCEPT !.exec_results = MapRemove(@, f.nonce)]
                  IN IF status.kind = "Executed"
                     THEN Becomes(Executed(v, status))
                     ELSE \E native \in NativeOutcomes :
                            Becomes(Enter(v, status.program_id, status.call_depth + 1,
                                          status.account_datas, native))
             ELSE Becomes([Validator EXCEPT !.call_stack[top].pc = "changed"])
    /\ UNCHANGED <<should_stop, exec_notif, notif_seen, recieve_handle, cpi_received,
                   calls_made>>
    /\ UNCHANGED childSide
    /\ UNCHANGED notCaller

\* self.exec_notif.changed() returns (lines 173-174): Ok when a version was not
\* seen yet, Err when the sender is gone with the poller task
exec_notif_changed ==
    /\ call_stack # <<>>
    /\ LET top == Len(call_stack)
       IN /\ call_stack[top].pc = "changed"
          /\ IF exec_notif # notif_seen
             THEN /\ notif_seen' = exec_notif
                  /\ Becomes([Validator EXCEPT !.call_stack[top].pc = "check"])
             ELSE /\ recieve_handle = "finished"
                  /\ UNCHANGED notif_seen
                  /\ Becomes(Fail(Validator, "ProgramClosedConnection"))
    /\ UNCHANGED <<should_stop, exec_notif, recieve_handle, cpi_received, calls_made>>
    /\ UNCHANGED childSide
    /\ UNCHANGED notCaller

\* mutant of Dispatch: Log frames are ignored
Dispatch_LogsDropped(st, msg) ==
    IF msg.kind = "Log"
    THEN st
    ELSE IF msg.kind = "Executed"
    THEN [st EXCEPT !.exec_results =
                       MapInsert(@, msg.nonce,
                                 [kind |-> "Executed", return_code |-> msg.return_code,
                                  account_datas |-> msg.account_datas]),
                    !.stuff_executed = TRUE]
    ELSE [st EXCEPT !.exec_results =
                       MapInsert(@, msg.nonce,
                                 [kind |-> "CPI", program_id |-> msg.program_id,
                                  account_datas |-> msg.account_datas,
                                  call_depth |-> msg.call_depth]),
                    !.cpi_received = Bump(@, msg.nonce),
                    !.stuff_executed = TRUE]

\* mutant of Dispatch: a CrossProgramInvoke status is stored without marking
\* the iteration as one that has to notify
Dispatch_CpiSilent(st, msg) ==
    IF msg.kind = "Log"
    THEN [st EXCEPT !.exec_logs = IF msg.nonce \in DOMAIN @
                                  THEN [@ EXCEPT ![msg.nonce] = Append(@, msg.message)]
                                  ELSE @]
    ELSE IF msg.kind = "Executed"
    THEN [st EXCEPT !.exec_results =
                       MapInsert(@, msg.nonce,
                                 [kind |-> "Executed", return_code |-> msg.return_code,
                                  account_datas |-> msg.account_datas]),
                    !.stuff_executed = TRUE]
    ELSE [st EXCEPT !.exec_results =
                       MapInsert(@, msg.nonce,
                                 [kind |-> "CPI", program_id |-> msg.program_id,
                                  account_datas |-> msg.account_datas,
                                  call_depth |-> msg.call_depth]),
                    !.cpi_received = Bump(@, msg.nonce)]

\* lines 74-119 for the frame at the head of one channel
Dispatch(st, msg) ==
    IF msg.kind = "Log"
    THEN [st EXCEPT !.exec_logs = IF msg.nonce \in DOMAIN @
                                  THEN [@ EXCEPT ![msg.nonce] = Append(@, msg.message)]
                                  ELSE @]
    ELSE IF msg.kind = "Executed"
    THEN [st EXCEPT !.exec_results =
                       MapInsert(@, msg.nonce,
                                 [kind |-> "Executed", return_code |-> msg.return_code,
                                  account_datas |-> msg.account_datas]),
                    !.stuff_executed = TRUE]
    ELSE [st EXCEPT !.exec_results =
                       MapInsert(@, msg.nonce,
                                 [kind |-> "CPI", program_id |-> msg.program_id,
                                  account_datas |-> msg.account_datas,
                                  call_depth |-> msg.call_depth]),
                    !.cpi_received = Bump(@, msg.nonce),
                    !.stuff_executed = TRUE]

\* the for loop of lines 73-121 over the channels in S
RECURSIVE PollAll(_, _)
PollAll(S, st) ==
    IF S = {} THEN st
    ELSE LET p == CHOOSE q \in S : TRUE
         IN PollAll(S \ {p},
                    IF from_child[p] = <<>> THEN st ELSE Dispatch(st, Head(from_child[p])))

\* one iteration of the poller task up to drop(comms) (lines 70-122): one frame
\* of every channel that has one; the notification is still to come when a
\* status was stored
recieve_iteration ==
    /\ recieve_handle = "running"
    /\ ~should_stop
    /\ \E p \in DOMAIN from_child : from_child[p] # <<>>
    /\ LET st == PollAll(DOMAIN from_child,
                         [exec_logs |-> exec_logs, exec_results |-> exec_results,
                          cpi_received |-> cpi_received, stuff_executed |-> FALSE])
       IN /\ exec_logs' = st.exec_logs
          /\ exec_results' = st.exec_results
          /\ cpi_received' = st.cpi_received
          /\ recieve_handle' = IF st.stuff_executed THEN "notify" ELSE "running"
    /\ from_child' = [p \in DOMAIN from_child |->
                        IF from_child[p] = <<>> THEN <<>> ELSE Tail(from_child[p])]
    /\ UNCHANGED <<should_stop, COMM_NONCE, exec_notif, notif_seen, native_logs,
                   to_child, call_stack, call_result, last_return, cpi_answered,
                   calls_made, child, cpis_made, logs_made, heights_made,
                   stack_height_seen, cpi_emitted, executed_emitted, child_events>>
    /\ UNCHANGED notCaller

\* the end of the iteration (lines 123-127): exec_notif_sender.send_modify
recieve_notify ==
    /\ recieve_handle = "notify"
    /\ exec_notif' = exec_notif + 1
    /\ recieve_handle' = "running"
    /\ UNCHANGED <<should_stop, COMM_NONCE, exec_logs, exec_results, notif_seen,
                   native_logs, to_child, call_stack, call_result, last_return,
                   cpi_answered, cpi_received, calls_made>>
    /\ UNCHANGED childSide
    /\ UNCHANGED notCaller

\* the poller task sees should_stop at the head of its loop and ends (line 70),
\* dropping exec_notif_sender
recieve_exit ==
    /\ recieve_handle = "running"
    /\ should_stop
    /\ recieve_handle' = "finished"
    /\ UNCHANGED <<should_stop, COMM_NONCE, exec_logs, exec_results, exec_notif,
                   notif_seen, native_logs, to_child, call_stack, call_result,
                   last_return, cpi_answered, cpi_received, calls_made>>
    /\ UNCHANGED childSide
    /\ UNCHANGED notCaller

\* ProgramCaller::stop (lines 275-277)
stop ==
    /\ ~should_stop
    /\ should_stop' = TRUE
    /\ UNCHANGED <<COMM_NONCE, exec_logs, exec_results, exec_notif, notif_seen,
                   recieve_handle, native_logs, to_child, call_stack, call_result,
                   last_return, cpi_answered, cpi_received, calls_made>>
    /\ UNCHANGED childSide
    /\ UNCHANGED notCaller

\* what the child-side actions leave alone
validatorSide == <<should_stop, COMM_NONCE, exec_logs, exec_results, exec_notif,
                   notif_seen, recieve_handle, native_logs, call_stack, call_result,
                   last_return, cpi_answered, cpi_received, calls_made>>

\* The read loop of a child's main task takes the next frame of the validator.
\* An Invoke becomes a PushContext message for the shim's task; a
\* CrossProgramInvokeResult goes to the reply slot of its nonce, where the
\* thread blocked in sol_invoke_signed takes it (sol_syscalls.rs lines 180-193:
\* the accounts are written back, a non-zero code panics), and the slot is spent.
ipc_read_loop(p) ==
    /\ to_child[p] # <<>>
    /\ LET msg == Head(to_child[p])
           c == child[p]
       IN IF msg.kind = "Invoke"
          THEN /\ Len(c.syscall_msgs) < SyscallMsgCapacity
               /\ child' = [child EXCEPT ![p].syscall_msgs =
                              Append(@, [kind |-> "PushContext", nonce |-> msg.nonce,
                                         cpi_height |-> msg.call_depth,
                                         account_datas |-> msg.account_datas])]
          ELSE IF msg.nonce \in DOMAIN c.invoke_result_senders
          THEN LET t == c.invoke_result_senders[msg.nonce]
                   old == c.threads[t].account_datas
               IN child' = [child EXCEPT
                     ![p].invoke_result_senders = MapRemove(@, msg.nonce),
                     ![p].threads[t] =
                        [pc |-> IF msg.return_code = Success THEN "run" ELSE "panicked",
                         call_depth |-> c.threads[t].call_depth,
                         account_datas |->
                            [pk \in DOMAIN old |->
                                IF pk \in DOMAIN msg.account_datas
                                THEN msg.account_datas[pk] ELSE old[pk]]]]
          ELSE UNCHANGED child
    /\ to_child' = [to_child EXCEPT ![p] = Tail(@)]
    /\ UNCHANGED <<from_child, cpis_made, logs_made, heights_made, stack_height_seen,
                   cpi_emitted, executed_emitted, child_events>>
    /\ UNCHANGED validatorSide
    /\ UNCHANGED notCaller

\* the task spawned by BokkenSyscalls::new (sol_syscalls.rs lines 39-53)
syscall_task(p) ==
    /\ child[p].syscall_msgs # <<>>
    /\ LET msg == Head(child[p].syscall_msgs)
       IN IF msg.kind = "PushContext"
          THEN child' = [child EXCEPT
                  ![p].syscall_msgs = Tail(@),
                  ![p].contexts = Append(@, [nonce |-> msg.nonce,
                                             cpi_height |-> msg.cpi_height]),
                  ![p].threads = MapInsert(@, msg.nonce,
                                           [pc |-> "run",
                                            call_depth |-> msg.cpi_height,
                                            account_datas |-> msg.account_datas])]
          ELSE child' = [child EXCEPT
                  ![p].syscall_msgs = Tail(@),
                  ![p].contexts = IF @ = <<>> THEN @ ELSE SubSeq(@, 1, Len(@) - 1)]
    /\ UNCHANGED <<to_child, from_child, cpis_made, logs_made, heights_made,
                   stack_height_seen, cpi_emitted, executed_emitted, child_events>>
    /\ UNCHANGED validatorSide
    /\ UNCHANGED notCaller

\* BokkenSyscalls::stack_height (lines 76-78): contexts.last().cpi_height()
stack_height(contexts_) == contexts_[Len(contexts_)].cpi_height

\* BokkenSyscalls::sol_log called by the program of thread t (lines 106-116);
\* the nonce is the one of the top context, whose absence panics
sol_log(p, t) ==
    /\ child[p].threads[t].pc = "run"
    /\ logs_made + cpis_made + heights_made < MaxSyscalls
    /\ logs_made' = logs_made + 1
    /\ LET c == child[p]
       IN IF c.contexts = <<>>
          THEN /\ child' = [child EXCEPT ![p].threads[t].pc = "panicked"]
               /\ UNCHANGED <<from_child, child_events>>
          ELSE LET frame == [kind |-> "Log", nonce |-> c.contexts[Len(c.contexts)].nonce,
                             message |-> [line |-> "logged", message |-> t]]
               IN /\ from_child' = [from_child EXCEPT ![p] = Append(@, frame)]
                  /\ child_events' = Record(child_events, frame.nonce, <<frame>>)
                  /\ UNCHANGED child
    /\ UNCHANGED <<to_child, cpis_made, heights_made, stack_height_seen, cpi_emitted,
                   executed_emitted>>
    /\ UNCHANGED validatorSide
    /\ UNCHANGED notCaller

\* BokkenSyscalls::sol_get_stack_height called by the program of thread t
\* (sol_syscalls.rs lines 76-78 behind the syscall): the cpi_height of the
\* context on top of the stack, whose absence panics
sol_get_stack_height(p, t) ==
    /\ child[p].threads[t].pc = "run"
    /\ logs_made + cpis_made + heights_made < MaxSyscalls
    /\ heights_made' = heights_made + 1
    /\ LET c == child[p]
       IN IF c.contexts = <<>>
          THEN /\ child' = [child EXCEPT ![p].threads[t].pc = "panicked"]
               /\ UNCHANGED stack_height_seen
          ELSE /\ stack_height_seen' =
                     [asked |-> TRUE, call_depth |-> c.threads[t].call_depth,
                      height |-> stack_height(c.contexts)]
               /\ UNCHANGED child
    /\ UNCHANGED <<to_child, from_child, cpis_made, logs_made, cpi_emitted,
                   executed_emitted, child_events>>
    /\ UNCHANGED validatorSide
    /\ UNCHANGED notCaller

\* BokkenSyscalls::sol_invoke_signed called by the program of thread t with metas
\* that pass the tests of lines 126-159: the reply slot is registered under the
\* top context's nonce, the CrossProgramInvoke frame is sent and the thread
\* blocks in receiver.blocking_recv() (lines 161-180). A slot replaced in the map
\* closes its receiver, which panics the thread that waits on it.
sol_invoke(p, t) ==
    /\ child[p].threads[t].pc = "run"
    /\ logs_made + cpis_made + heights_made < MaxSyscalls
    /\ cpis_made' = cpis_made + 1
    /\ LET c == child[p]
           top == c.contexts[Len(c.contexts)]
       IN IF c.contexts = <<>>
          THEN /\ child' = [child EXCEPT ![p].threads[t].pc = "panicked"]
               /\ UNCHANGED <<from_child, cpi_emitted, child_events>>
          ELSE /\ child' = [child EXCEPT
                     ![p].invoke_result_senders = MapInsert(@, top.nonce, t),
                     ![p].threads = [u \in DOMAIN @ |->
                        IF u = t THEN [@[u] EXCEPT !.pc = "recv"]
                        ELSE IF /\ top.nonce \in DOMAIN c.invoke_result_senders
                                /\ c.invoke_result_senders[top.nonce] = u
                        THEN [@[u] EXCEPT !.pc = "panicked"]
                        ELSE @[u]]]
               /\ from_child' = [from_child EXCEPT ![p] =
                     Append(@, [kind |-> "CrossProgramInvoke", nonce |-> top.nonce,
                                program_id |-> p, account_datas |-> EmptyMap,
                                call_depth |-> top.cpi_height])]
               /\ cpi_emitted' = Bump(cpi_emitted, top.nonce)
               /\ child_events' = Record(child_events, top.nonce, <<[kind |-> "Cpi"]>>)
    /\ UNCHANGED <<to_child, logs_made, heights_made, stack_height_seen,
                   executed_emitted>>
    /\ UNCHANGED validatorSide
    /\ UNCHANGED notCaller

\* "Program panicked: <message>", where sol_log writes "Program logged: <message>"
PanicLine == [line |-> "panicked", message |-> 0]

\* mutant of ExitFrames: a panic is reported like a return of code 0
ExitFrames_PanicAsSuccess(nonce, panicked, return_code, account_datas) ==
    <<[kind |-> "Executed", nonce |-> nonce, return_code |-> return_code,
       account_datas |-> account_datas]>>

\* executor.rs lines 295-329: the frames that report the end of an entrypoint
ExitFrames(nonce, panicked, return_code, account_datas) ==
    IF panicked
    THEN <<[kind |-> "Log", nonce |-> nonce, message |-> PanicLine],
           [kind |-> "Executed", nonce |-> nonce, return_code |-> CUSTOM_ZERO,
            account_datas |-> account_datas]>>
    ELSE <<[kind |-> "Executed", nonce |-> nonce, return_code |-> return_code,
            account_datas |-> account_datas]>>

\* The entrypoint of thread t returns or panics and the outer thread of
\* execute_sol_program_thread reports it (executor.rs lines 289-330): PopContext
\* to the shim's task, then Executed, after a Log when the entrypoint panicked
thread_exit(p, t) ==
    /\ child[p].threads[t].pc \in {"run", "panicked"}
    /\ Len(child[p].syscall_msgs) < SyscallMsgCapacity
    /\ \E panicked \in BOOLEAN, return_code \in ProgramReturnCodes :
        /\ child[p].threads[t].pc = "panicked" => panicked
        /\ panicked => return_code = Success
        /\ LET frames == ExitFrames(t, panicked, return_code,
                                    child[p].threads[t].account_datas)
           IN /\ from_child' = [from_child EXCEPT ![p] = @ \o frames]
              /\ child_events' =
                    Record(child_events, t,
                           (IF panicked THEN <<[kind |-> "Panic"]>> ELSE <<>>) \o frames)
    /\ child' = [child EXCEPT ![p].syscall_msgs = Append(@, [kind |-> "PopContext"]),
                              ![p].threads = MapRemove(@, t)]
    /\ executed_emitted' = executed_emitted \cup {t}
    /\ UNCHANGED <<to_child, cpis_made, logs_made, heights_made, stack_height_seen,
                   cpi_emitted>>
    /\ UNCHANGED validatorSide
    /\ UNCHANGED notCaller

ChildNext(p) ==
    \/ ipc_read_loop(p)
    \/ syscall_task(p)
    \/ \E t \in DOMAIN child[p].threads : sol_log(p, t)
    \/ \E t \in DOMAIN child[p].threads : sol_invoke(p, t)
    \/ \E t \in DOMAIN child[p].threads : sol_get_stack_height(p, t)
    \/ \E t \in DOMAIN child[p].threads : thread_exit(p, t)

CallerNext ==
    \/ call_program
    \/ wait_for_exec_status
    \/ exec_notif_changed
    \/ recieve_iteration
    \/ recieve_notify
    \/ recieve_exit
    \/ stop
    \/ \E p \in ChildIds : ChildNext(p)

InitCaller == CallerInit /\ ChanInit /\ BlobIdle /\ CpiIdle /\ LedgerIdle /\ ListenerIdle
    /\ ReturnDataIdle
    /\ SystemIdle
    /\ LocksIdle

SpecCaller == InitCaller /\ [][CallerNext]_vars

\* the top-level call_program has returned to execute_instruction
Returned == call_stack = <<>> /\ call_result # NoCall

CpiNonces == DOMAIN cpi_emitted \cup DOMAIN cpi_received \cup DOMAIN cpi_answered

\* no nonce has more CrossProgramInvokeResult frames than CrossProgramInvoke frames
C2_AtMostOneAnswer ==
    \A n \in CpiNonces : Count(cpi_answered, n) <= Count(cpi_received, n)

\* call_program does not return with a received CrossProgramInvoke unanswered
C2_AnsweredOnReturn ==
    Returned => \A n \in CpiNonces : Count(cpi_answered, n) = Count(cpi_received, n)

\* a child that produced Executed{n} had every CrossProgramInvoke{n} answered
C2_NoExecutedBeforeAnswer ==
    \A n \in executed_emitted : Count(cpi_emitted, n) = Count(cpi_answered, n)

\* C2: every CrossProgramInvoke{n} frame the validator receives is answered by
\* exactly one CrossProgramInvokeResult{n} frame, whatever the outcome of the
\* sub-call: no nonce has more answers than frames received, none is left
\* without its answer once the top-level call_program has returned, and a child
\* that has produced Executed{n} has had every CrossProgramInvoke{n} it sent
\* answered.
C2_CpiCorrelation ==
    /\ C2_AtMostOneAnswer
    /\ C2_AnsweredOnReturn
    /\ C2_NoExecutedBeforeAnswer

IsInvokeLine(l) == l.line = "invoke"

IsTerminalLine(l) == l.line \in {"success", "returned"}

NumInvokeLines(logs) == Cardinality({i \in 1..Len(logs) : IsInvokeLine(logs[i])})

NumTerminalLines(logs) == Cardinality({i \in 1..Len(logs) : IsTerminalLine(logs[i])})

\* C8: the log list call_program returns for a completed invocation of program
\* <id> at depth d starts with "Program <id> invoke [d]", ends with the terminal
\* line of its return code ("success" for 0, "returned: <e>" otherwise), and
\* holds one invoke line and one terminal line for each invocation that
\* completed within it, itself included.
C8_LogBookends ==
    last_return # NoCall =>
        LET r == last_return
        IN /\ Len(r.logs) >= 2
           /\ r.logs[1] = InvokeLine(r.program_id, r.call_depth)
           /\ r.logs[Len(r.logs)] = TerminalLine(r.program_id, r.return_code)
           /\ NumInvokeLines(r.logs) = r.invocations
           /\ NumTerminalLines(r.logs) = r.invocations
           /\ Cardinality({i \in 1..Len(r.logs) :
                             r.logs[i] = InvokeLine(r.program_id, r.call_depth)}) = 1

\* a child's invocation returned with a CPI and a program log inside it
C8_Witness ==
    /\ last_return # NoCall
    /\ last_return.program_id \in ChildIds
    /\ last_return.call_depth = TopCallDepth
    /\ last_return.invocations >= 2
    /\ \E i \in 1..Len(last_return.logs) : last_return.logs[i].line = "logged"

\* what children sent under a nonce, and the panics of its entrypoint
EventsOf(n) == IF n \in DOMAIN child_events THEN child_events[n] ELSE <<>>

Panicked(n) == \E i \in 1..Len(EventsOf(n)) : EventsOf(n)[i].kind = "Panic"

IsPanicLog(e) == e.kind = "Log" /\ e.message = PanicLine

RECURSIVE LogsBeforeExecuted(_)
LogsBeforeExecuted(ev) ==
    IF ev = <<>> \/ Head(ev).kind = "Executed" THEN <<>>
    ELSE IF Head(ev).kind = "Log"
    THEN <<Head(ev).message>> \o LogsBeforeExecuted(Tail(ev))
    ELSE LogsBeforeExecuted(Tail(ev))

\* the lines of a returned log list that are no bookend and lie between the
\* bookends of the invocation itself, not of a sub-invocation
RECURSIVE OwnLines(_, _)
OwnLines(logs, depth) ==
    IF logs = <<>> THEN <<>>
    ELSE IF IsInvokeLine(Head(logs)) THEN OwnLines(Tail(logs), depth + 1)
    ELSE IF IsTerminalLine(Head(logs)) THEN OwnLines(Tail(logs), depth - 1)
    ELSE IF depth = 1 THEN <<Head(logs)>> \o OwnLines(Tail(logs), depth)
    ELSE OwnLines(Tail(logs), depth)

\* C14: log before Executed. The log list call_program returns for nonce n
\* holds, between the bookends of n and outside the blocks of its
\* sub-invocations, exactly the messages of the Log{n} frames the child sent
\* before Executed{n}, in the order they were sent: none is dropped.
C14_LogBeforeExecuted ==
    (last_return # NoCall /\ last_return.nonce # NoNonce) =>
        OwnLines(last_return.logs, 0) = LogsBeforeExecuted(EventsOf(last_return.nonce))

\* a returned invocation that logged and made a CPI
C14_Witness ==
    /\ last_return # NoCall
    /\ last_return.nonce # NoNonce
    /\ last_return.invocations >= 2
    /\ LogsBeforeExecuted(EventsOf(last_return.nonce)) # <<>>

(***************************************************************************)
(* The listener task and the registry of channels (program_caller.rs lines  *)
(* 51-64, 151-156, 202-220)                                                 *)
(***************************************************************************)
MaxConns == 2                          \* connections children make
MaxInvokes == 2                        \* Invoke frames call_program tries to send

\* what a child sends first on its connection: its program id, bytes that are
\* no pubkey, or nothing before it closes the stream
FirstFrames ==
    {[kind |-> "pubkey", id |-> p] : p \in Pubkeys}
        \cup {[kind |-> "garbage", id |-> 0], [kind |-> "eof", id |-> 0]}

\* mutant of Register: a program id keeps its first channel
Register_KeepFirst(m, program_id, comm) ==
    IF program_id \in DOMAIN m THEN m ELSE MapInsert(m, program_id, comm)

\* line 58: comms.insert(program_id, comm)
Register(m, program_id, comm) == MapInsert(m, program_id, comm)

\* ProgramCaller::has_program_id (lines 151-156)
has_program_id(program_id) ==
    program_id = SystemProgramId \/ program_id \in DOMAIN comms

\* ProgramCaller::new: the listener task is spawned on an empty registry
ListenerInit ==
    /\ listener_should_stop = FALSE
    /\ connections = EmptyMap
    /\ accept_queue = <<>>
    /\ comms = EmptyMap
    /\ comms_lock = "free"
    /\ listener_handle = "head"
    /\ listener_stream = 0
    /\ invokes_made = 0
    /\ handshakes = <<>>
    /\ invokes = <<>>

\* a child process connects to the socket (debug_runtime_main, lib.rs line 110)
connect ==
    /\ Cardinality(DOMAIN connections) < MaxConns
    /\ \E first \in FirstFrames :
         LET c == Cardinality(DOMAIN connections) + 1
         IN /\ connections' = MapInsert(connections, c,
                                        [first |-> first, arrived |-> FALSE, out |-> <<>>])
            /\ accept_queue' = Append(accept_queue, c)
    /\ UNCHANGED <<listener_should_stop, comms, comms_lock, listener_handle,
                   listener_stream, invokes_made, handshakes, invokes>>
    /\ UNCHANGED notListener

\* the first frame of connection c, or its end of stream, reaches the validator
first_frame_arrives(c) ==
    /\ ~connections[c].arrived
    /\ connections' = [connections EXCEPT ![c].arrived = TRUE]
    /\ UNCHANGED <<listener_should_stop, accept_queue, comms, comms_lock,
                   listener_handle, listener_stream, invokes_made, handshakes, invokes>>
    /\ UNCHANGED notListener

\* line 52: while !should_stop
listener_loop_head ==
    /\ listener_handle = "head"
    /\ listener_handle' = IF listener_should_stop THEN "finished" ELSE "accept"
    /\ UNCHANGED <<listener_should_stop, connections, accept_queue, comms, comms_lock,
                   listener_stream, invokes_made, handshakes, invokes>>
    /\ UNCHANGED notListener

\* line 53: listener.accept().await returns a stream
listener_accept ==
    /\ listener_handle = "accept"
    /\ accept_queue # <<>>
    /\ listener_stream' = Head(accept_queue)
    /\ accept_queue' = Tail(accept_queue)
    /\ listener_handle' = "lock"
    /\ UNCHANGED <<listener_should_stop, connections, comms, comms_lock,
                   invokes_made, handshakes, invokes>>
    /\ UNCHANGED notListener

\* line 55: comms_mutex_clone.lock().await
listener_lock ==
    /\ listener_handle = "lock"
    /\ comms_lock = "free"
    /\ comms_lock' = "listener"
    /\ listener_handle' = "handshake"
    /\ UNCHANGED <<listener_should_stop, connections, accept_queue, comms,
                   listener_stream, invokes_made, handshakes, invokes>>
    /\ UNCHANGED notListener

\* lines 56-58: IPCComm::new_with_identifier returns. A pubkey is registered and
\* the loop goes on; an end of stream (UnexpectedEof) or a frame that is no
\* pubkey leaves the task through `?`. The guard of the mutex is dropped.
listener_identifier ==
    /\ listener_handle = "handshake"
    /\ connections[listener_stream].arrived
    /\ LET first == connections[listener_stream].first
       IN IF first.kind = "pubkey"
          THEN /\ comms' = Register(comms, first.id, listener_stream)
               /\ handshakes' = Append(handshakes, [connection |-> listener_stream,
                                                    program_id |-> first.id])
               /\ listener_handle' = "head"
          ELSE /\ listener_handle' = "failed"
               /\ UNCHANGED <<comms, handshakes>>
    /\ comms_lock' = "free"
    /\ UNCHANGED <<listener_should_stop, connections, accept_queue, listener_stream,
                   invokes_made, invokes>>
    /\ UNCHANGED notListener

\* the connection registered last for program_id, 0 when there is none
RECURSIVE LatestRegistered(_, _)
LatestRegistered(hs, program_id) ==
    IF hs = <<>> THEN 0
    ELSE IF hs[Len(hs)].program_id = program_id THEN hs[Len(hs)].connection
    ELSE LatestRegistered(SubSeq(hs, 1, Len(hs) - 1), program_id)

\* call_program for a program that is no built-in (lines 202-220): under the
\* comms mutex the Invoke frame goes to the channel registered for program_id
send_invoke ==
    /\ invokes_made < MaxInvokes
    /\ comms_lock = "free"
    /\ invokes_made' = invokes_made + 1
    /\ \E program_id \in Pubkeys :
         IF program_id \in DOMAIN comms
         THEN /\ connections' = [connections EXCEPT ![comms[program_id]].out =
                                   Append(@, [kind |-> "Invoke", nonce |-> invokes_made,
                                              program_id |-> program_id])]
              /\ invokes' = Append(invokes,
                                   [nonce |-> invokes_made, program_id |-> program_id,
                                    latest |-> LatestRegistered(handshakes, program_id)])
         ELSE UNCHANGED <<connections, invokes>>
    /\ UNCHANGED <<listener_should_stop, accept_queue, comms, comms_lock,
                   listener_handle, listener_stream, handshakes>>
    /\ UNCHANGED notListener

\* ProgramCaller::stop (lines 275-277), as the listener task sees it
listener_stop ==
    /\ ~listener_should_stop
    /\ listener_should_stop' = TRUE
    /\ UNCHANGED <<connections, accept_queue, comms, comms_lock, listener_handle,
                   listener_stream, invokes_made, handshakes, invokes>>
    /\ UNCHANGED notListener

ListenerNext ==
    \/ connect
    \/ \E c \in DOMAIN connections : first_frame_arrives(c)
    \/ listener_loop_head
    \/ listener_accept
    \/ listener_lock
    \/ listener_identifier
    \/ send_invoke
    \/ listener_stop

InitListener == ListenerInit /\ ChanInit /\ BlobIdle /\ CpiIdle /\ LedgerIdle /\ CallerIdle /\ ReturnDataIdle
    /\ SystemIdle
    /\ LocksIdle

SpecListener == InitListener /\ [][ListenerNext]_vars

\* the connections whose out queue holds the Invoke frame of this nonce
SentOn(nonce) ==
    {c \in DOMAIN connections :
        \E i \in 1..Len(connections[c].out) : connections[c].out[i].nonce = nonce}

\* C12: registration. Once the first frame of a connection has decoded to a
\* pubkey P, has_program_id(P) is true; the registry holds for P the connection
\* that registered P last, and no other; every Invoke for P was sent on the
\* connection that was the last to register P when it was sent.
C12_Registration ==
    /\ \A i \in 1..Len(handshakes) : has_program_id(handshakes[i].program_id)
    /\ \A p \in Pubkeys :
          IF LatestRegistered(handshakes, p) = 0
          THEN p \notin DOMAIN comms
          ELSE p \in DOMAIN comms /\ comms[p] = LatestRegistered(handshakes, p)
    /\ \A i \in 1..Len(invokes) : SentOn(invokes[i].nonce) = {invokes[i].latest}

\* a program id registered twice and an Invoke sent on its second connection
C12_Witness ==
    \E i, j \in 1..Len(handshakes) :
        /\ i < j
        /\ handshakes[i].program_id = handshakes[j].program_id
        /\ \E k \in 1..Len(invokes) :
              /\ invokes[k].program_id = handshakes[j].program_id
              /\ SentOn(invokes[k].nonce) = {handshakes[j].connection}

\* a top-level call has depth 1 and every nested call one more than its caller
C18_DepthsNest == \A i \in 1..Len(call_stack) : call_stack[i].call_depth = i

\* sol_get_stack_height answered the depth of the invocation that asked
C18_HeightIsOwnDepth ==
    stack_height_seen.asked => stack_height_seen.height = stack_height_seen.call_depth

\* C18: call depth. The top-level call runs at call_depth 1, every CPI
\* sub-invocation at one more than the invocation that issued it, and
\* sol_get_stack_height inside an invocation answers that invocation's depth.
C18_CallDepth == C18_DepthsNest /\ C18_HeightIsOwnDepth

\* call_program is inside exec_notif.changed().await, waiting for the
\* completion of the nonce on top of its stack
WaitingInChanged == call_stack # <<>> /\ call_stack[Len(call_stack)].pc = "changed"

\* C19: cancellation. When stop() has set the flag while call_program waits
\* for the completion of a nonce and call_program then returns an error, the
\* error is Stopping, not another kind such as ProgramClosedConnection.
C19_Cancellation ==
    [][(should_stop /\ WaitingInChanged /\ call_stack' = <<>> /\ call_result'.kind = "Err")
          => call_result'.err = "Stopping"]_vars

\* the steps the listener task takes by itself; connections, first frames and
\* stop() come from outside the task
ListenerSteps ==
    \/ listener_loop_head
    \/ listener_accept
    \/ listener_lock
    \/ listener_identifier

\* The tokio runtime runs a spawned task whenever the future it awaits is
\* ready: the listener's own steps are weakly fair. Nothing obliges a child to
\* connect or to send its first frame.
FairSpecListener == SpecListener /\ WF_vars(ListenerSteps)

\* the listener task has left its loop: Ok(()) at line 63 or an error through `?`
ListenerExited == listener_handle \in {"finished", "failed"}

\* C20: shutdown terminates every loop. Once stop() has set the flag the
\* listener task eventually exits, with no new connection and no new frame
\* needed.
C20_ShutdownTerminates == listener_should_stop ~> ListenerExited

\* the invocation was given an account for the sysvar, beside its metas or
\* among them
SysvarGiven(sysvar) ==
    get_sysvar_data(bytes, account_offsets, non_entrypointed_account_infos,
                    SysvarPubkey[sysvar]).kind = "Some"

\* C21: sysvar syscalls. sol_get_clock_sysvar and sol_get_rent_sysvar return
\* UNSUPPORTED_SYSVAR only when the invocation was given no account for that
\* sysvar; when the Invoke's account map holds it the syscall succeeds.
C21_SysvarSyscalls ==
    (sysvar_call.called /\ SysvarGiven(sysvar_call.sysvar)) =>
        sysvar_call.code = Success

(***************************************************************************)
(* Return data of the syscall shim: BokkenSyscalls keeps one return_data    *)
(* for all the invocations its process runs (sol_syscalls.rs)               *)
(***************************************************************************)
MaxInvocations == 4                    \* invocations one child process runs
ShimProgramId == 1                     \* BokkenSyscalls.program_id
ReturnDatas == {<<>>, <<7>>, <<8>>, <<7, 8>>}

\* BokkenSyscalls::new (line 72) has run; no Invoke has arrived
ReturnDataInit ==
    /\ return_data = NoReturnData
    /\ invocations_started = 0
    /\ invocation_running = FALSE
    /\ set_here = NoReturnData
    /\ got_return_data = [asked |-> FALSE]

\* the PushContext arm of the shim's task (lines 43-47): the context is pushed
\* and the entrypoint started; return_data is not touched
push_context ==
    /\ ~invocation_running
    /\ invocations_started < MaxInvocations
    /\ invocations_started' = invocations_started + 1
    /\ invocation_running' = TRUE
    /\ set_here' = NoReturnData
    /\ got_return_data' = [asked |-> FALSE]
    /\ UNCHANGED return_data
    /\ UNCHANGED notReturnData

\* lines 210-213: *return_data = Some((self.program_id, data.to_vec()))
sol_set_return_data(data) ==
    /\ invocation_running
    /\ return_data' = [kind |-> "Some", program_id |-> ShimProgramId, data |-> data]
    /\ set_here' = return_data'
    /\ got_return_data' = [asked |-> FALSE]
    /\ UNCHANGED <<invocations_started, invocation_running>>
    /\ UNCHANGED notReturnData

\* lines 207-209: self.return_data.blocking_lock().clone()
sol_get_return_data ==
    /\ invocation_running
    /\ got_return_data' = [asked |-> TRUE, value |-> return_data]
    /\ UNCHANGED <<return_data, invocations_started, invocation_running, set_here>>
    /\ UNCHANGED notReturnData

\* the entrypoint has returned and the PopContext arm has run (lines 48-50)
pop_context ==
    /\ invocation_running
    /\ invocation_running' = FALSE
    /\ UNCHANGED <<return_data, invocations_started, set_here, got_return_data>>
    /\ UNCHANGED notReturnData

ReturnDataNext ==
    \/ push_context
    \/ \E data \in ReturnDatas : sol_set_return_data(data)
    \/ sol_get_return_data
    \/ pop_context

InitReturnData ==
    ReturnDataInit /\ ChanInit /\ BlobIdle /\ CpiIdle /\ LedgerIdle /\ CallerIdle
    /\ ListenerIdle
    /\ SystemIdle
    /\ LocksIdle

SpecReturnData == InitReturnData /\ [][ReturnDataNext]_vars

\* C22: return data is per invocation. sol_get_return_data answers what the
\* running invocation last set: None before any sol_set_return_data of this
\* invocation, whatever earlier invocations stored, and (program id, b) after
\* sol_set_return_data(b).
C22_ReturnDataPerInvocation ==
    got_return_data.asked => got_return_data.value = set_here

\* the part of C22 about an invocation that has set its return data
C22_GetAfterSet ==
    (got_return_data.asked /\ set_here # NoReturnData) =>
        got_return_data.value = set_here

(***************************************************************************)
(* The system program stub: SystemInstruction::Transfer in                  *)
(* DebugSystemProgram::exec (native_program_stubs/system_program.rs)        *)
(***************************************************************************)
MaxSysMetas == 2                       \* metas of the instruction
SysKeys == {1, 2, 3}
TransferAmounts == {0, 3, 5}

\* an account of the model: its data and owner tell the accounts apart
SysAccount(k, l) ==
    [lamports |-> l, data |-> <<k>>, owner |-> k, executable |-> FALSE, rent_epoch |-> 0]

SysAccountMaps ==
    UNION {[K -> {2, 5}] : K \in SUBSET SysKeys}

SysMetas ==
    SeqsOf([pubkey : {1, 2}, is_signer : BOOLEAN, is_writable : BOOLEAN], 0, MaxSysMetas)

\* assert_account_meta (native_program_stubs.rs lines 6-22); index counts from 0,
\* and the account is taken out of datas
assert_account_meta(metas, datas, index, writable, signer) ==
    IF index + 1 > Len(metas)
    THEN [kind |-> "Err", err |-> "NotEnoughAccountKeys", datas |-> datas]
    ELSE LET meta == metas[index + 1]
         IN IF writable /\ ~meta.is_writable
            THEN [kind |-> "Err", err |-> "Custom(0)", datas |-> datas]
            ELSE IF signer /\ ~meta.is_signer
            THEN [kind |-> "Err", err |-> "MissingRequiredSignature", datas |-> datas]
            ELSE IF meta.pubkey \notin DOMAIN datas
            THEN [kind |-> "Err", err |-> "NotEnoughAccountKeys", datas |-> datas]
            ELSE [kind |-> "Ok", pubkey |-> meta.pubkey, account |-> datas[meta.pubkey],
                  datas |-> MapRemove(datas, meta.pubkey)]

\* the index of the meta the Transfer arm reads the recipient from (line 80)
TransferToIndex == 0

\* the Transfer arm of exec (lines 73-86), with BokkenAccountData::move_lamports
\* (debug_env.rs lines 17-24); account_datas is changed in place, also when
\* exec leaves through `?`
exec_transfer(lamports, account_metas, account_datas) ==
    LET from == assert_account_meta(account_metas, account_datas, 0, TRUE, TRUE)
    IN IF from.kind = "Err" THEN [kind |-> "Err", err |-> from.err, datas |-> from.datas]
       ELSE LET to == assert_account_meta(account_metas, from.datas, TransferToIndex,
                                          TRUE, FALSE)
            IN IF to.kind = "Err" THEN [kind |-> "Err", err |-> to.err, datas |-> to.datas]
               ELSE IF from.account.lamports < lamports
               THEN [kind |-> "Err", err |-> "InsufficientFunds", datas |-> to.datas]
               ELSE [kind |-> "Ok", err |-> "",
                     datas |->
                        MapInsert(
                          MapInsert(to.datas, from.pubkey,
                                    [from.account EXCEPT !.lamports = @ - lamports]),
                          to.pubkey, [to.account EXCEPT !.lamports = @ + lamports])]

SystemInit ==
    /\ sys_pc = "input"
    /\ sys_lamports \in TransferAmounts
    /\ sys_metas \in SysMetas
    /\ \E m \in SysAccountMaps :
         sys_accounts = [k \in DOMAIN m |-> SysAccount(k, m[k])]
    /\ sys_result = [kind |-> "None"]

\* ProgramCaller::call_program runs the stub for the instruction
system_exec ==
    /\ sys_pc = "input"
    /\ sys_result' = exec_transfer(sys_lamports, sys_metas, sys_accounts)
    /\ sys_pc' = "done"
    /\ UNCHANGED <<sys_lamports, sys_metas, sys_accounts>>
    /\ UNCHANGED notSystem

SystemNext == system_exec

InitSystem ==
    SystemInit /\ ChanInit /\ BlobIdle /\ CpiIdle /\ LedgerIdle /\ CallerIdle
    /\ ListenerIdle
    /\ ReturnDataIdle
    /\ LocksIdle

SpecSystem == InitSystem /\ [][SystemNext]_vars

\* the instruction is a well-formed transfer the payer can afford
WellFormedTransfer ==
    /\ Len(sys_metas) = 2
    /\ sys_metas[1].is_writable /\ sys_metas[1].is_signer
    /\ sys_metas[2].is_writable
    /\ sys_metas[1].pubkey # sys_metas[2].pubkey
    /\ {sys_metas[1].pubkey, sys_metas[2].pubkey} \subseteq DOMAIN sys_accounts
    /\ sys_accounts[sys_metas[1].pubkey].lamports >= sys_lamports

\* C23: system program transfer. A Transfer with metas [from (writable,
\* signer), to (writable)], from # to, both accounts present and from able to
\* pay returns Ok, moves the lamports from from to to and leaves every other
\* field and account as given.
C23_SystemTransfer ==
    (sys_pc = "done" /\ WellFormedTransfer) =>
        LET from == sys_metas[1].pubkey
            to == sys_metas[2].pubkey
        IN /\ sys_result.kind = "Ok"
           /\ sys_result.datas =
                 [k \in DOMAIN sys_accounts |->
                    IF k = from
                    THEN [sys_accounts[k] EXCEPT !.lamports = @ - sys_lamports]
                    ELSE IF k = to
                    THEN [sys_accounts[k] EXCEPT !.lamports = @ + sys_lamports]
                    ELSE sys_accounts[k]]

\* for each CPI issued under a nonce before its Executed, the number of Log
\* frames sent under the nonce before the CPI
RECURSIVE CpiPositions(_, _)
CpiPositions(ev, own) ==
    IF ev = <<>> \/ Head(ev).kind = "Executed" THEN <<>>
    ELSE IF Head(ev).kind = "Log" THEN CpiPositions(Tail(ev), own + 1)
    ELSE IF Head(ev).kind = "Cpi" THEN <<own>> \o CpiPositions(Tail(ev), own)
    ELSE CpiPositions(Tail(ev), own)

\* for each block of a sub-invocation in a returned log list, the number of the
\* invocation's own lines before the block's 'invoke' bookend
RECURSIVE SubBlockPositions(_, _, _)
SubBlockPositions(logs, depth, own) ==
    IF logs = <<>> THEN <<>>
    ELSE IF IsInvokeLine(Head(logs))
    THEN (IF depth = 1 THEN <<own>> ELSE <<>>)
            \o SubBlockPositions(Tail(logs), depth + 1, own)
    ELSE IF IsTerminalLine(Head(logs)) THEN SubBlockPositions(Tail(logs), depth - 1, own)
    ELSE SubBlockPositions(Tail(logs), depth, IF depth = 1 THEN own + 1 ELSE own)

\* C25: log nesting order. In the log list call_program returns for nonce n
\* the block of each sub-invocation stands, bookend to bookend, after exactly
\* the lines n logged before issuing that CPI and before the lines n logged
\* after the CPI returned.
C25_LogNesting ==
    (last_return # NoCall /\ last_return.nonce # NoNonce) =>
        SubBlockPositions(last_return.logs, 0, 0)
            = CpiPositions(EventsOf(last_return.nonce), 0)

\* a returned invocation that logged a line and then made a CPI
C25_Witness ==
    /\ last_return # NoCall
    /\ last_return.nonce # NoNonce
    /\ CpiPositions(EventsOf(last_return.nonce), 0) = <<1>>

\* the frame a step appends to the channel towards child p, if it is a CPI reply
ReplySent(p) ==
    /\ Len(to_child'[p]) = Len(to_child[p]) + 1
    /\ to_child'[p][Len(to_child'[p])].kind = "CrossProgramInvokeResult"

\* C26: a CrossProgramInvokeResult is sent only in the step in which the
\* recursive call_program of the sub-instruction returns; it goes on the channel
\* of the program whose activation received the CPI, carries that activation's
\* nonce n and the return code and the account map the sub-call returned, and
\* the activation goes back to waiting on nonce n.
C26_ReplyRouting ==
    [][\A p \in ChildIds :
         ReplySent(p) =>
            LET msg == to_child'[p][Len(to_child'[p])]
                f == call_stack'[Len(call_stack')]
            IN /\ call_stack' # <<>>
               /\ f.program_id = p
               /\ f.nonce = msg.nonce
               /\ f.pc = "check"
               /\ Count(cpi_received, msg.nonce) > Count(cpi_answered, msg.nonce)
               /\ last_return' # NoCall
               /\ last_return'.call_depth = f.call_depth + 1
               /\ msg.return_code = last_return'.return_code
               /\ msg.account_datas = last_return'.account_datas]_vars

\* a reply of a failed sub-call is on its way to the child while the activation
\* that sent it waits
C26_Witness ==
    /\ call_stack # <<>>
    /\ \E p \in ChildIds : \E i \in 1..Len(to_child[p]) :
          /\ to_child[p][i].kind = "CrossProgramInvokeResult"
          /\ to_child[p][i].nonce = call_stack[Len(call_stack)].nonce
          /\ to_child[p][i].return_code # Success

\* the caller's blob as BokkenSolanaContext::new built it, before the reply
BuiltBytes == SolanaAccountsBlobNew(ProgramId, in_instruction, in_metas, in_accounts).bytes

\* the CPI got a reply of return code 0 and sol_invoke_signed returned Ok(())
CpiSucceeded ==
    /\ cpi_result.received
    /\ cpi_result.return_code = 0
    /\ syscall_result.kind = "Ok"

\* C27: after a CPI reply of return code 0 with the account map U and the
\* Ok(()) of sol_invoke_signed, get_account_data gives, for every account of
\* U in the caller's blob, the lamports, the data and the owner of U, and for
\* every other account of the blob what it gave before the reply.
C27_CpiWriteBack ==
    CpiSucceeded =>
        \A pk \in DOMAIN account_offsets :
            LET now == get_account_data(bytes, account_offsets, pk)
                U == cpi_result.account_datas
            IN /\ now.kind = "Some"
               /\ IF pk \in DOMAIN U
                  THEN /\ now.account.lamports = U[pk].lamports
                       /\ now.account.data = U[pk].data
                       /\ now.account.owner = U[pk].owner
                  ELSE now = get_account_data(BuiltBytes, account_offsets, pk)

\* a successful CPI whose reply names one of the two accounts of the blob and
\* changes it
C27_Witness ==
    /\ CpiSucceeded
    /\ DOMAIN account_offsets = {1, 2}
    /\ DOMAIN cpi_result.account_datas = {2}
    /\ bytes # BuiltBytes

\* C28: once the reader or the writer task of a channel has hit an I/O error,
\* the channel's should_stop is true and no until_recv_msg ends in a panic or
\* stays pending in recv_notif.changed() with nothing left to wake it: it
\* returns Ok(None).
C28_ChannelFailure ==
    io_failed # "none" =>
        /\ ipc_should_stop
        /\ until_recv.result # "Panic"
        /\ until_recv.pc # "changed"

\* C29: when the top-level call_program has returned, with Ok or with Err, every
\* nested call has returned too, and neither exec_logs nor exec_results holds an
\* entry any more: each call removed the entries of the nonce it allocated.
C29_SlotCleanup ==
    Returned => (exec_logs = EmptyMap /\ exec_results = EmptyMap)

\* the frame a step appends to the channel towards child p, if it is an Invoke
InvokeSent(p) ==
    /\ Len(to_child'[p]) = Len(to_child[p]) + 1
    /\ to_child'[p][Len(to_child'[p])].kind = "Invoke"

CallDepthCeiling == TopCallDepth + MaxSyscalls - 1

\* C31: call_program does not dispatch a sub-invocation whose call depth exceeds
\* the ceiling: no activation of call_program is deeper than CallDepthCeiling,
\* whatever the children do.
C31_DepthCeiling ==
    \A i \in 1..Len(call_stack) : call_stack[i].call_depth <= CallDepthCeiling

\* the Log frames sol_log sent under nonce n, each with the invocation (the
\* nonce of the thread) that called sol_log
LoggedUnder(n) ==
    {i \in 1..Len(EventsOf(n)) :
        /\ EventsOf(n)[i].kind = "Log"
        /\ EventsOf(n)[i].message.line = "logged"}

\* C32: every syscall reads the frame of the invocation that makes it. A Log
\* frame sol_log sends carries the nonce of the invocation that logged, and
\* sol_get_stack_height gives the depth of the invocation that asked, also
\* after a nested invocation of the same child has exited and the CPI reply
\* has resumed its caller.
C32_OwnFrame ==
    /\ \A n \in DOMAIN child_events :
          \A i \in LoggedUnder(n) : EventsOf(n)[i].message.message = n
    /\ stack_height_seen.asked =>
          stack_height_seen.height = stack_height_seen.call_depth

\* C33: in a built blob every full record starts at an offset divisible by 8,
\* its rent_epoch field too, and get_account_data reads as rent_epoch the value
\* SolanaAccountsBlob::new wrote for the account, whatever the data lengths of
\* the accounts are.
C33_RecordAlignment ==
    blob_pc = "built" =>
        \A pk \in DOMAIN account_offsets :
            LET account_data_offset == account_offsets[pk] + AccountInfoHeaderSize
                read == get_account_data(bytes, account_offsets, pk)
            IN /\ account_offsets[pk] % 8 = 0
               /\ RentEpochOffset(account_data_offset, Len(in_accounts[pk].data)) % 8 = 0
               /\ read.kind = "Some"
               /\ read.account.rent_epoch = in_accounts[pk].rent_epoch

\* the working map when the first instruction starts: the accounts as loaded,
\* the fee taken from the fee payer
FeeDebited == [account_datas_loaded EXCEPT ![tx.fee_payer].lamports = @ - TxFee]

\* the instructions before the k-th that named pk and have returned
EarlierNaming(k, pk) ==
    {j \in 1..(k - 1) : pk \in MetaPubkeys(tx.instructions[j].account_metas)}

\* what the k-th instruction has to be given for pk
LatestValue(k, pk) ==
    IF EarlierNaming(k, pk) = {} THEN FeeDebited[pk]
    ELSE ix_returned[MaxOf(EarlierNaming(k, pk))][pk]

C35_SetAccountAtomic ==
    (set_call.called /\ set_call.kind # "Panic") =>
        LET built == BuiltBytes
        IN IF set_call.kind = "Err"
           THEN bytes = built
           ELSE LET account_offset == account_offsets[set_call.pubkey]
                    data_end == account_offset + AccountInfoHeaderSize
                                   + Len(set_call.account_data.data)
                    read == get_account_data(bytes, account_offsets, set_call.pubkey)
                    before == get_account_data(built, account_offsets, set_call.pubkey)
                IN /\ Len(bytes) = Len(built)
                   /\ SubSeq(bytes, 1, account_offset + 40)
                         = SubSeq(built, 1, account_offset + 40)
                   /\ SubSeq(bytes, data_end + 1, Len(bytes))
                         = SubSeq(built, data_end + 1, Len(bytes))
                   /\ read.kind = "Some"
                   /\ read.account.lamports = set_call.account_data.lamports
                   /\ read.account.owner = set_call.account_data.owner
                   /\ read.account.data = set_call.account_data.data
                   /\ read.account.executable = before.account.executable
                   /\ read.account.rent_epoch = before.account.rent_epoch

\* a call refused with InvalidRealloc on a blob that holds two records
C35_Witness ==
    /\ set_call.called
    /\ set_call.kind = "Err"
    /\ set_call.err = "InvalidRealloc"
    /\ Cardinality(DOMAIN account_offsets) = 2

\* the steps the poller task and the task that awaits call_program take by
\* themselves
PollerSteps == recieve_iteration \/ recieve_notify
WaiterSteps == wait_for_exec_status \/ exec_notif_changed

\* The tokio runtime runs a task whenever the future it awaits is ready: the
\* poller loop never parks (it only takes locks nobody keeps), and
\* watch::Receiver::changed is ready as soon as a version is unseen. Nothing
\* obliges a child to make progress, and nobody has to call stop().
FairSpecCaller == SpecCaller /\ WF_vars(PollerSteps) /\ WF_vars(WaiterSteps)

\* the activation on top of the call stack waits in wait_for_exec_status for
\* nonce n
WaitingOn(n) ==
    /\ call_stack # <<>>
    /\ call_stack[Len(call_stack)].nonce = n
    /\ call_stack[Len(call_stack)].pc \in {"check", "changed"}

\* an Executed{n} or CrossProgramInvoke{n} frame has been received on a channel
\* and call_program has not taken its status yet
CompletionPending(n) ==
    \/ n \in DOMAIN exec_results
    \/ \E p \in DOMAIN from_child : \E i \in 1..Len(from_child[p]) :
          /\ from_child[p][i].kind \in {"Executed", "CrossProgramInvoke"}
          /\ from_child[p][i].nonce = n

AwaitingIdentifier ==
    /\ listener_handle = "handshake"
    /\ ~connections[listener_stream].arrived

\* C38: connections are independent during the handshake. While a connection
\* has not sent its first frame the comms mutex is free, so the poller,
\* call_program's sends and has_program_id are not held up by it.
C38_HandshakeIndependence == AwaitingIdentifier => comms_lock = "free"

\* C39: a failed handshake affects only its connection. Whatever the first
\* frame of a connection is, the listener task is back at the head of its loop
\* when new_with_identifier has returned.
C39_FailedHandshakeIsolated ==
    [][(listener_handle = "handshake" /\ listener_handle' # "handshake")
          => listener_handle' = "head"]_vars

\* C40: no received frame is lost at end of stream. When until_recv_msg returns
\* Ok(None) after the peer has closed, every payload the reader task had queued
\* before the end of the stream has been returned: the receive queue is empty.
C40_NoFrameLostAtEof ==
    (until_recv.result = "OkNone" /\ io_failed = "none") => recv_queue_bytes = <<>>

(***************************************************************************)
(* The comms and exec_logs mutexes of ProgramCaller, as call_program and    *)
(* the poller task take them (program_caller.rs). The validator is not      *)
(* stopped and every program that is called has a registered channel.       *)
(***************************************************************************)
MaxLockCalls == 1                      \* top-level calls of call_program
MaxLockDepth == 2                      \* nested activations of child programs
MaxLockFrames == 3                     \* Log and CrossProgramInvoke frames sent
LockPrograms == {1, 2}

\* ProgramCaller::new (lines 41-45): both mutexes free, nothing called
LocksInit ==
    /\ comms_guard = "free"
    /\ exec_logs_guard = "free"
    /\ activations = <<>>
    /\ poller = "head"
    /\ poller_todo = {}
    /\ inbox = [p \in LockPrograms |-> <<>>]
    /\ stored_status = "none"
    /\ frames_sent = 0
    /\ lock_calls = 0

\* the innermost activation of call_program
Innermost == activations[Len(activations)]

\* the innermost activation moves on to position pc
At(pc) == [activations EXCEPT ![Len(activations)].pc = pc]

\* call_program is called for a child program (lines 177-203)
call_entered ==
    /\ activations = <<>>
    /\ lock_calls < MaxLockCalls
    /\ lock_calls' = lock_calls + 1
    /\ \E p \in LockPrograms :
         activations' = <<[program |-> p, pc |-> "comms", thread |-> "none",
                          answered |-> 0]>>
    /\ UNCHANGED <<comms_guard, exec_logs_guard, poller, poller_todo, inbox,
                   stored_status, frames_sent>>
    /\ UNCHANGED notLocks

\* line 204: let mut comms = self.comms.lock().await
entry_comms_lock ==
    /\ activations # <<>>
    /\ Innermost.pc = "comms"
    /\ comms_guard = "free"
    /\ comms_guard' = "call_program"
    /\ activations' = At("exec_logs")
    /\ UNCHANGED <<exec_logs_guard, poller, poller_todo, inbox, stored_status,
                   frames_sent, lock_calls>>
    /\ UNCHANGED notLocks

\* line 205: let mut exec_logs = self.exec_logs.lock().await
entry_exec_logs_lock ==
    /\ activations # <<>>
    /\ Innermost.pc = "exec_logs"
    /\ exec_logs_guard = "free"
    /\ exec_logs_guard' = "call_program"
    /\ activations' = At("send")
    /\ UNCHANGED <<comms_guard, poller, poller_todo, inbox, stored_status,
                   frames_sent, lock_calls>>
    /\ UNCHANGED notLocks

\* lines 206-220: the Invoke is sent, which starts the program's thread in the
\* child, exec_logs gets its entry and both guards are dropped
entry_send ==
    /\ activations # <<>>
    /\ Innermost.pc = "send"
    /\ activations' = [activations EXCEPT ![Len(activations)].pc = "wait",
                                          ![Len(activations)].thread = "run"]
    /\ comms_guard' = "free"
    /\ exec_logs_guard' = "free"
    /\ UNCHANGED <<poller, poller_todo, inbox, stored_status, frames_sent, lock_calls>>
    /\ UNCHANGED notLocks

\* wait_for_exec_status returns the status of the nonce (lines 157-176, 225):
\* the Executed arm is entered, or the CPI arm calls call_program, which
\* returns at once for a built-in program (lines 186-201)
status_taken ==
    /\ activations # <<>>
    /\ Innermost.pc = "wait"
    /\ stored_status # "none"
    /\ stored_status' = "none"
    /\ IF stored_status = "Executed"
       THEN activations' = At("executed")
       ELSE \E native \in BOOLEAN :
              IF native
              THEN activations' = At("cpi_exec_logs")
              ELSE /\ Len(activations) < MaxLockDepth
                   /\ \E p \in LockPrograms :
                        activations' = Append(At("sub_call"),
                                              [program |-> p, pc |-> "comms",
                                               thread |-> "none", answered |-> 0])
    /\ UNCHANGED <<comms_guard, exec_logs_guard, poller, poller_todo, inbox,
                   frames_sent, lock_calls>>
    /\ UNCHANGED notLocks

\* the Executed arm (lines 230-241): self.exec_logs.lock().await.remove(&nonce)
\* and the return, after which a calling activation is at line 257
executed_arm ==
    /\ activations # <<>>
    /\ Innermost.pc = "executed"
    /\ exec_logs_guard = "free"
    /\ activations' = IF Len(activations) = 1 THEN <<>>
                      ELSE [SubSeq(activations, 1, Len(activations) - 1)
                              EXCEPT ![Len(activations) - 1].pc = "cpi_exec_logs"]
    /\ UNCHANGED <<comms_guard, exec_logs_guard, poller, poller_todo, inbox,
                   stored_status, frames_sent, lock_calls>>
    /\ UNCHANGED notLocks

\* line 257: let mut exec_logs = self.exec_logs.lock().await, kept until the
\* end of the arm; the sub-call's lines are spliced (258-260)
cpi_exec_logs_lock ==
    /\ activations # <<>>
    /\ Innermost.pc = "cpi_exec_logs"
    /\ exec_logs_guard = "free"
    /\ exec_logs_guard' = "call_program"
    /\ activations' = At("cpi_comms")
    /\ UNCHANGED <<comms_guard, poller, poller_todo, inbox, stored_status,
                   frames_sent, lock_calls>>
    /\ UNCHANGED notLocks

\* line 261: let mut comms = self.comms.lock().await
cpi_comms_lock ==
    /\ activations # <<>>
    /\ Innermost.pc = "cpi_comms"
    /\ comms_guard = "free"
    /\ comms_guard' = "call_program"
    /\ activations' = At("cpi_send")
    /\ UNCHANGED <<exec_logs_guard, poller, poller_todo, inbox, stored_status,
                   frames_sent, lock_calls>>
    /\ UNCHANGED notLocks

\* lines 262-271: the CrossProgramInvokeResult is sent, which resumes the
\* program's thread, and the arm ends, dropping both guards
cpi_send_reply ==
    /\ activations # <<>>
    /\ Innermost.pc = "cpi_send"
    /\ activations' = [activations EXCEPT ![Len(activations)].pc = "wait",
                                          ![Len(activations)].thread = "run",
                                          ![Len(activations)].answered = @ + 1]
    /\ comms_guard' = "free"
    /\ exec_logs_guard' = "free"
    /\ UNCHANGED <<poller, poller_todo, inbox, stored_status, frames_sent, lock_calls>>
    /\ UNCHANGED notLocks

\* line 72 of the poller task: let mut comms = comms_mutex_clone.lock().await
poller_comms_lock ==
    /\ poller = "head"
    /\ comms_guard = "free"
    /\ comms_guard' = "poller"
    /\ poller' = "recv"
    /\ poller_todo' = LockPrograms
    /\ UNCHANGED <<exec_logs_guard, activations, inbox, stored_status, frames_sent,
                   lock_calls>>
    /\ UNCHANGED notLocks

\* lines 73-75 and 83-119: comm.recv_msg() for the next channel of the for
\* loop; an Executed or CrossProgramInvoke goes to exec_results, a Log sends
\* the task to line 77
poller_recv_msg ==
    /\ poller = "recv"
    /\ \E p \in poller_todo :
         /\ poller_todo' = poller_todo \ {p}
         /\ IF inbox[p] = <<>>
            THEN UNCHANGED <<inbox, poller, stored_status>>
            ELSE /\ inbox' = [inbox EXCEPT ![p] = Tail(@)]
                 /\ IF Head(inbox[p]) = "Log"
                    THEN poller' = "log" /\ UNCHANGED stored_status
                    ELSE /\ stored_status' = IF Head(inbox[p]) = "Executed"
                                             THEN "Executed" ELSE "CPI"
                         /\ UNCHANGED poller
    /\ UNCHANGED <<comms_guard, exec_logs_guard, activations, frames_sent, lock_calls>>
    /\ UNCHANGED notLocks

\* the Log arm (lines 76-82): exec_logs_mutex_clone.lock().await, the push, and
\* the guard dropped at the end of the arm
poller_log_arm ==
    /\ poller = "log"
    /\ exec_logs_guard = "free"
    /\ poller' = "recv"
    /\ UNCHANGED <<comms_guard, exec_logs_guard, activations, poller_todo, inbox,
                   stored_status, frames_sent, lock_calls>>
    /\ UNCHANGED notLocks

\* line 122: drop(comms) after the for loop, and back to line 70
poller_drop_comms ==
    /\ poller = "recv"
    /\ poller_todo = {}
    /\ comms_guard' = "free"
    /\ poller' = "head"
    /\ UNCHANGED <<exec_logs_guard, activations, poller_todo, inbox, stored_status,
                   frames_sent, lock_calls>>
    /\ UNCHANGED notLocks

\* the thread a child runs for an Invoke: sol_log sends a Log, sol_invoke_signed
\* sends a CrossProgramInvoke and blocks for the reply (sol_syscalls.rs lines
\* 108-116, 161-180), the end of the entrypoint sends Executed (executor.rs
\* lines 295-303)
program_thread ==
    /\ \E i \in DOMAIN activations :
         /\ activations[i].thread = "run"
         /\ \E kind \in {"Log", "CrossProgramInvoke", "Executed"} :
              /\ kind # "Executed" => frames_sent < MaxLockFrames
              /\ frames_sent' = IF kind = "Executed" THEN frames_sent
                                ELSE frames_sent + 1
              /\ inbox' = [inbox EXCEPT ![activations[i].program] = Append(@, kind)]
              /\ activations' = [activations EXCEPT ![i].thread =
                                   IF kind = "Log" THEN "run"
                                   ELSE IF kind = "Executed" THEN "exited"
                                   ELSE "recv"]
    /\ UNCHANGED <<comms_guard, exec_logs_guard, poller, poller_todo, stored_status,
                   lock_calls>>
    /\ UNCHANGED notLocks

LocksNext ==
    \/ call_entered
    \/ entry_comms_lock
    \/ entry_exec_logs_lock
    \/ entry_send
    \/ status_taken
    \/ executed_arm
    \/ cpi_exec_logs_lock
    \/ cpi_comms_lock
    \/ cpi_send_reply
    \/ poller_comms_lock
    \/ poller_recv_msg
    \/ poller_log_arm
    \/ poller_drop_comms
    \/ program_thread

InitLocks ==
    LocksInit /\ ChanInit /\ BlobIdle /\ CpiIdle /\ LedgerIdle /\ CallerIdle
    /\ ListenerIdle /\ ReturnDataIdle /\ SystemIdle

SpecLocks == InitLocks /\ [][LocksNext]_vars

\* call_program holds the exec_logs guard and waits for comms while the poller
\* holds the comms guard and waits for exec_logs
LockCycle ==
    /\ activations # <<>>
    /\ Innermost.pc = "cpi_comms"
    /\ exec_logs_guard = "call_program"
    /\ poller = "log"
    /\ comms_guard = "poller"

\* comms is taken before exec_logs, the order of the poller task and of the
\* entry of call_program: who asks for comms holds no exec_logs guard
CommsBeforeExecLogs ==
    /\ (activations # <<>> /\ Innermost.pc \in {"comms", "cpi_comms"})
          => exec_logs_guard # "call_program"
    /\ poller = "head" => exec_logs_guard # "poller"

\* C37: validator deadlock freedom. call_program and the poller never each hold
\* one of the comms and exec_logs mutexes while waiting for the other, and the
\* two mutexes are taken in one order on every path, the splice of the
\* sub-call's log followed by the CrossProgramInvokeResult send included.
C37_DeadlockFreedom == ~LockCycle /\ CommsBeforeExecLogs

====
